---- MODULE Spec2Model ----
(***************************************************************************)
(* State-machine model of the process-graph Builder of the openEO JS       *)
(* client (class Builder) together with the parts of BuilderNode, of the   *)
(* callback-signature lookup and of Formula it calls, and of the           *)
(* authentication state of Connection with OpenEO.connectDirect.           *)
(*                                                                         *)
(* Process names are sequences of one-character strings, so that replace,  *)
(* substr and string concatenation are computed, not assumed.  Parameter   *)
(* names and argument names are plain strings.                             *)
(***************************************************************************)
EXTENDS Integers, Sequences, FiniteSets, TLC

\* ------------------------------------------------------------------ bounds
MaxBuilders == 3
MaxNodes == 2
MaxObjs == 2
MaxIdCalls == 12
MaxNestCalls == 4
MaxJSONBuilders == 2
MaxMathBuilders == 2
MaxMathCalls == 4
MaxConnections == 1
MaxPending == 1
MaxMessages == 3
MaxParts == 3
MaxVersions == 3
MaxEndpoints == 2
MaxJobs == 1

\* ------------------------------------------------------- JavaScript values
NULL == "null"
ABSENT == "<absent>"

\* An object without properties; an object is a function of its keys.
EmptyObject == [key \in {} |-> NULL]

\* ------------------------------------------------------------ string tools
Digits == <<"0", "1", "2", "3", "4", "5", "6", "7", "8", "9">>

RECURSIVE NumberToString(_)
NumberToString(n) ==
    IF n < 10 THEN <<Digits[n + 1]>>
    ELSE NumberToString(n \div 10) \o <<Digits[(n % 10) + 1]>>

\* String.prototype.substr(0, len)
substr(s, len) == SubSeq(s, 1, IF Len(s) < len THEN Len(s) ELSE len)

\* String.prototype.replace(pattern, "") with a one-character string pattern:
\* only the first occurrence is removed.
replace(s, pattern) ==
    IF \E i \in 1..Len(s) : s[i] = pattern
    THEN LET i == CHOOSE j \in 1..Len(s) :
                      s[j] = pattern /\ \A k \in 1..(j - 1) : s[k] # pattern
         IN SubSeq(s, 1, i - 1) \o SubSeq(s, i + 1, Len(s))
    ELSE s

\* String.prototype.startsWith
startsWith(s, prefix) == Len(s) >= Len(prefix) /\ SubSeq(s, 1, Len(prefix)) = prefix

\* The letters, and the lower-case letter of a character.
UpperCase == <<"A","B","C","D","E","F","G","H","I","J","K","L","M",
               "N","O","P","Q","R","S","T","U","V","W","X","Y","Z">>
LowerCase == <<"a","b","c","d","e","f","g","h","i","j","k","l","m",
               "n","o","p","q","r","s","t","u","v","w","x","y","z">>
ToLower(c) ==
    IF \E i \in 1..26 : UpperCase[i] = c
    THEN LowerCase[CHOOSE i \in 1..26 : UpperCase[i] = c] ELSE c

\* String.prototype.toLowerCase
toLowerCase(s) == [i \in 1..Len(s) |-> ToLower(s[i])]

\* ------------------------------------------------------------ the catalogs
reduce_dimension ==
    <<"r","e","d","u","c","e","_","d","i","m","e","n","s","i","o","n">>
reduce_dimension_binary == reduce_dimension \o <<"_","b","i","n","a","r","y">>
L_A_I == <<"L","_","A","_","I">>
log == <<"l","o","g">>
log1 == <<"l","o","g","1">>

\* One declared parameter of a catalog entry.  cbParams are the names the
\* callback-signature lookup yields for it; ambiguous marks a schema for which
\* the lookup throws ("Multiple schemas with different callback parameters").
Param(name, cbParams, ambiguous) ==
    [name |-> name, cbParams |-> cbParams, ambiguous |-> ambiguous]

PROCESSES == <<
    [id |-> reduce_dimension,
     parameters |-> <<Param("data", <<>>, FALSE),
                      Param("reducer", <<"data", "context">>, FALSE)>>],
    [id |-> L_A_I, parameters |-> <<Param("process", <<>>, TRUE)>>] >>

IdProcesses == <<
    [id |-> log, parameters |-> <<Param("x", <<>>, FALSE)>>],
    [id |-> log1, parameters |-> <<Param("x", <<>>, FALSE)>>],
    [id |-> reduce_dimension,
     parameters |-> <<Param("data", <<>>, FALSE),
                      Param("reducer", <<"data", "context">>, FALSE)>>],
    [id |-> reduce_dimension_binary,
     parameters |-> <<Param("reducer", <<"x", "y", "context">>, FALSE)>>] >>

add == <<"a","d","d">>
subtract == <<"s","u","b","t","r","a","c","t">>
multiply == <<"m","u","l","t","i","p","l","y">>
divide == <<"d","i","v","i","d","e">>

\* The arithmetic operations a formula compiles to.
MathProcesses == <<
    [id |-> add, parameters |-> <<Param("x", <<>>, FALSE), Param("y", <<>>, FALSE)>>],
    [id |-> subtract, parameters |-> <<Param("x", <<>>, FALSE), Param("y", <<>>, FALSE)>>],
    [id |-> multiply, parameters |-> <<Param("x", <<>>, FALSE), Param("y", <<>>, FALSE)>>],
    [id |-> divide, parameters |-> <<Param("x", <<>>, FALSE), Param("y", <<>>, FALSE)>>] >>

\* The catalogs are shared objects: a builder refers to its catalog by name.
Catalog(name) ==
    IF name = "IdProcesses" THEN IdProcesses
    ELSE IF name = "MathProcesses" THEN MathProcesses
    ELSE PROCESSES

\* A value handed to the constructor as `processes`; items names the catalog
\* an array holds.
ArrayValue(items) == [type |-> "array", items |-> items, processes |-> "undefined"]
ObjectValue(processesType, items) ==
    [type |-> "object", items |-> items, processes |-> processesType]
ScalarValue(type) == [type |-> type, items |-> NULL, processes |-> "undefined"]

CatalogInputs(procs) ==
    {ArrayValue(procs), ObjectValue("array", procs), ObjectValue("undefined", NULL),
     ObjectValue("string", NULL), ScalarValue("null"), ScalarValue("string")}

ArgumentNames == {"reducer", "process"}

\* The parameter descriptors the caller passes to addParameter.
Descriptor(name, description, default) ==
    [name |-> name, description |-> description, default |-> default]
Descriptors ==
    {Descriptor("x", "d1", "v"), Descriptor("x", "d2", ABSENT),
     Descriptor("data", "d1", ABSENT)}

\* --------------------------------------------------------------- the state
\* builder   : the Builder objects, in order of construction
\* heap      : the parameter descriptor objects the caller has created; the
\*             parameter lists hold references (indices) into it
\* paramObjs : for a builder and a name, the number of Parameter objects
\*             Parameter.create has made; it tells two such objects apart
\* last      : the last call, with what it returned or threw
\* connection: the Connection objects, in order of construction
\* pending   : the asynchronous calls that wait for a response, each with the
\*             place it waits at
\* isNode    : whether the code runs in Node.js (no window) or in a browser
VARIABLES builder, heap, paramObjs, last, connection, pending, isNode, job, backend

vars == <<builder, heap, paramObjs, last, connection, pending, isNode, job, backend>>

builderVars == <<builder, heap, paramObjs>>
connectionVars == <<connection, pending, isNode>>
entityVars == <<job, backend>>

Builders == 1..Len(builder)

NoCall == [op |-> "none", b |-> 0, threw |-> FALSE, name |-> <<>>, node |-> <<>>,
           param |-> NULL, value |-> <<>>, root |-> FALSE, ret |-> <<>>,
           error |-> ""]

\* -------------------------------------------------------- Builder: helpers
isArray(v) == v.type = "array"
isObject(v) == v.type = "object"

\* Builder.spec(id): the position of the entry in the builder's catalog,
\* 0 for undefined.
spec(b, id) ==
    LET ps == Catalog(builder[b].processes)
    IN IF \E i \in 1..Len(ps) : ps[i].id = id
       THEN CHOOSE i \in 1..Len(ps) :
                ps[i].id = id /\ \A j \in 1..(i - 1) : ps[j].id # id
       ELSE 0

\* node.spec, dereferenced: <<>> for undefined, else <<the catalog entry>>.
specOf(node) ==
    IF node.spec = 0 THEN <<>>
    ELSE <<Catalog(builder[node.parent].processes)[node.spec]>>

\* name.replace("_", "").substr(0, 6)
truncatedStem(name) == substr(replace(name, "_"), 6)

\* generateId with one counter for all stems of the builder.
generateId_oneCounter(self, name) ==
    LET stem == truncatedStem(name)
        idCounter == self.idCounter
        used == {idCounter[t] : t \in DOMAIN idCounter}
        count == IF used = {} THEN 1
                 ELSE 1 + CHOOSE m \in used : \A n \in used : n <= m
    IN [idCounter |-> (stem :> count) @@ idCounter,
        id |-> stem \o NumberToString(count)]

\* generateId that cuts the stem after 5 characters.
generateId_substr5(self, name) ==
    LET stem == substr(replace(name, "_"), 5)
        idCounter == self.idCounter
        count == IF stem \notin DOMAIN idCounter \/ idCounter[stem] = 0
                 THEN 1 ELSE idCounter[stem] + 1
    IN [idCounter |-> (stem :> count) @@ idCounter,
        id |-> stem \o NumberToString(count)]

\* generateId that continues the numbering of the parent builder.
generateId_parentCounter(self, name) ==
    LET stem == truncatedStem(name)
        idCounter == self.idCounter
        p == self.parent
        inherited == IF p # 0 /\ stem \in DOMAIN builder[p].idCounter
                     THEN builder[p].idCounter[stem] ELSE 0
        count == IF stem \notin DOMAIN idCounter \/ idCounter[stem] = 0
                 THEN inherited + 1 ELSE idCounter[stem] + 1
    IN [idCounter |-> (stem :> count) @@ idCounter,
        id |-> stem \o NumberToString(count)]

\* Builder.generateId(name) on the builder object self: the new counters of
\* the builder and the id.
generateId(self, name) ==
    LET stem == truncatedStem(name)
        idCounter == self.idCounter
        count == IF stem \notin DOMAIN idCounter \/ idCounter[stem] = 0
                 THEN 1 ELSE idCounter[stem] + 1
    IN [idCounter |-> (stem :> count) @@ idCounter,
        id |-> stem \o NumberToString(count)]

\* new BuilderNode(parent, processId, args, description), parent being the
\* builder object self, which is builder b: the catalog entry is looked up with
\* parent.spec, the id comes from parent.generateId, no result flag is set.
BuilderNode(self, b, processId) ==
    LET g == generateId(self, processId)
    IN [idCounter |-> g.idCounter,
        node |-> [parent |-> b, process_id |-> processId, id |-> g.id,
                  spec |-> spec(b, processId), result |-> FALSE]]

\* Builder.process(processId, args) on the builder object self, which is
\* builder b: the builder after the call and the node.
process(self, b, processId) ==
    LET n == BuilderNode(self, b, processId)
    IN [self |-> [self EXCEPT !.idCounter = n.idCounter,
                              !.nodes = (n.node.id :> n.node) @@ @],
        node |-> n.node]

\* A constructor that takes every object for a catalog.
constructorThrows_anyObject(processes) ==
    ~isArray(processes) /\ ~isObject(processes)

\* The constructor throws unless processes is an array or an object whose
\* processes field is an array.
constructorThrows(processes) ==
    ~isArray(processes) /\ ~(isObject(processes) /\ processes.processes = "array")

Builder(processes, parent, id) ==
    [parent |-> parent, parentNode |-> <<>>, parentParameter |-> NULL,
     processes |-> processes.items, nodes |-> <<>>, idCounter |-> <<>>,
     callbackParameterCache |-> <<>>, id |-> id,
     parameters |-> [array |-> FALSE, items |-> <<>>], meta |-> <<>>]

\* Builder.setParent(node, parameterName) on the builder object self
setParent(self, node, parameterName) ==
    [self EXCEPT !.parentNode = <<node>>, !.parentParameter = parameterName]

\* ProcessUtils.getCallbackParametersForProcess(process, parameterName)
getCallbackParametersForProcess(nodeSpec, parameterName) ==
    IF nodeSpec = <<>> THEN [threw |-> FALSE, names |-> <<>>]
    ELSE LET ps == nodeSpec[1].parameters
         IN IF \E i \in 1..Len(ps) : ps[i].name = parameterName
            THEN LET p == ps[CHOOSE i \in 1..Len(ps) : ps[i].name = parameterName]
                 IN IF p.ambiguous THEN [threw |-> TRUE, names |-> <<>>]
                    ELSE [threw |-> FALSE, names |-> p.cbParams]
            ELSE [threw |-> FALSE, names |-> <<>>]

\* createCallbackParameter that makes a new Parameter on every call.
createCallbackParameter_noCache(cache, count, b, parameterName) ==
    LET n == IF <<b, parameterName>> \in DOMAIN count
             THEN count[<<b, parameterName>>] + 1 ELSE 1
        p == [name |-> parameterName, builder |-> b, obj |-> n]
    IN [cache |-> (parameterName :> p) @@ cache,
        count |-> (<<b, parameterName>> :> n) @@ count,
        parameter |-> p]

\* Builder.createCallbackParameter(parameterName) on a given cache: the cache
\* after the call, the number of Parameter objects and the Parameter returned.
createCallbackParameter(cache, count, b, parameterName) ==
    IF parameterName \in DOMAIN cache
    THEN [cache |-> cache, count |-> count, parameter |-> cache[parameterName]]
    ELSE LET n == IF <<b, parameterName>> \in DOMAIN count
                  THEN count[<<b, parameterName>>] + 1 ELSE 1
             p == [name |-> parameterName, builder |-> b, obj |-> n]
         IN [cache |-> (parameterName :> p) @@ cache,
             count |-> (<<b, parameterName>> :> n) @@ count,
             parameter |-> p]

\* names.map(name => this.createCallbackParameter(name))
RECURSIVE mapCreate(_, _, _, _)
mapCreate(cache, count, b, names) ==
    IF names = <<>> THEN [cache |-> cache, count |-> count, params |-> <<>>]
    ELSE LET c == createCallbackParameter(cache, count, b, Head(names))
             r == mapCreate(c.cache, c.count, b, Tail(names))
         IN [cache |-> r.cache, count |-> r.count,
             params |-> <<c.parameter>> \o r.params]

\* getParentCallbackParameters without the try/catch around the lookup.
getParentCallbackParameters_noCatch(self, b) ==
    LET none == [cache |-> self.callbackParameterCache, count |-> paramObjs,
                 params |-> <<>>, threw |-> FALSE]
    IN IF self.parentNode # <<>> /\ self.parentParameter # NULL
       THEN LET cb == getCallbackParametersForProcess(specOf(self.parentNode[1]),
                                                      self.parentParameter)
                m == mapCreate(self.callbackParameterCache, paramObjs, b, cb.names)
            IN IF cb.threw THEN [none EXCEPT !.threw = TRUE]
               ELSE [cache |-> m.cache, count |-> m.count, params |-> m.params,
                     threw |-> FALSE]
       ELSE none

\* Builder.getParentCallbackParameters() on the builder object self, which is
\* (or becomes) builder b: the cache and the Parameter count after it, the
\* list it returns, and whether it threw.  A failing lookup is caught.
getParentCallbackParameters(self, b) ==
    LET none == [cache |-> self.callbackParameterCache, count |-> paramObjs,
                 params |-> <<>>, threw |-> FALSE]
    IN IF self.parentNode # <<>> /\ self.parentParameter # NULL
       THEN LET cb == getCallbackParametersForProcess(specOf(self.parentNode[1]),
                                                      self.parentParameter)
                m == mapCreate(self.callbackParameterCache, paramObjs, b, cb.names)
            IN IF cb.threw THEN none
               ELSE [cache |-> m.cache, count |-> m.count, params |-> m.params,
                     threw |-> FALSE]
       ELSE none

\* while (builder.parent) builder = builder.parent
RECURSIVE rootOf(_)
rootOf(b) == IF builder[b].parent # 0 THEN rootOf(builder[b].parent) ELSE b

\* Object.assign that replaces the target by the source.
ObjectAssign_replace(target, source) == source

\* Object.assign(target, source)
ObjectAssign(target, source) ==
    [f \in DOMAIN target |-> IF source[f] # ABSENT THEN source[f] ELSE target[f]]

\* parameters.findIndex(p => p.name === name), 0 for -1
findIndex(items, name) ==
    IF \E i \in 1..Len(items) : heap[items[i]].name = name
    THEN CHOOSE i \in 1..Len(items) :
             heap[items[i]].name = name
             /\ \A j \in 1..(i - 1) : heap[items[j]].name # name
    ELSE 0

\* The part of addParameter after the check for the callback parameters:
\* the list of the target builder gets the parameter merged or added.
mergeOrAdd(cached, count, b, ref, parameter, root) ==
    LET target == IF root THEN rootOf(b) ELSE b
        items == IF cached[target].parameters.array
                 THEN cached[target].parameters.items ELSE <<>>
        existing == findIndex(items, parameter.name)
    IN IF existing # 0
       THEN [builder |-> [cached EXCEPT ![target].parameters =
                              [array |-> TRUE, items |-> items]],
             heap |-> [heap EXCEPT ![items[existing]] = ObjectAssign(@, parameter)],
             count |-> count, threw |-> FALSE]
       ELSE [builder |-> [cached EXCEPT ![target].parameters =
                              [array |-> TRUE,
                               items |-> Append(items, IF ref = 0 THEN Len(heap) + 1
                                                       ELSE ref)]],
             heap |-> IF ref = 0 THEN Append(heap, parameter) ELSE heap,
             count |-> count, threw |-> FALSE]

\* addParameter without the check for the callback parameters.
addParameter_noCallbackCheck(b, ref, fresh, root) ==
    LET cb == getParentCallbackParameters(builder[b], b)
    IN mergeOrAdd([builder EXCEPT ![b].callbackParameterCache = cb.cache],
                  cb.count, b, ref, IF ref = 0 THEN fresh ELSE heap[ref], root)

\* Builder.addParameter(parameter, root): the builders and the heap after it.
\* The parameter is the heap object ref, or for ref = 0 an object the caller
\* has just created with the content fresh; such an object enters the heap
\* when a parameter list starts to refer to it.
addParameter(b, ref, fresh, root) ==
    LET cb == getParentCallbackParameters(builder[b], b)
        cached == [builder EXCEPT ![b].callbackParameterCache = cb.cache]
        parameter == IF ref = 0 THEN fresh ELSE heap[ref]
    IN IF cb.threw
       THEN [builder |-> builder, heap |-> heap, count |-> paramObjs, threw |-> TRUE]
       ELSE IF \E i \in 1..Len(cb.params) : cb.params[i].name = parameter.name
       THEN [builder |-> cached, heap |-> heap, count |-> cb.count, threw |-> FALSE]
       ELSE mergeOrAdd(cached, cb.count, b, ref, parameter, root)

\* The keys of the process metadata toJSON copies.
PROCESS_META ==
    <<"id", "summary", "description", "categories", "parameters", "returns",
      "deprecated", "experimental", "exceptions", "examples", "links">>

\* typeof self[key] === 'undefined', for a key of PROCESS_META: id is what the
\* constructor was given, parameters is what addParameter made, the other
\* keys are properties the caller has assigned (self.meta).
isUndefined(self, key) ==
    IF key = "id" THEN self.id = "undefined"
    ELSE IF key = "parameters" THEN ~self.parameters.array
    ELSE key \notin DOMAIN self.meta

\* self[key], for a key that is not undefined
get(self, key) ==
    IF key = "id" THEN self.id
    ELSE IF key = "parameters" THEN self.parameters.items
    ELSE self.meta[key]

\* node.toJSON(): the serialization names the operation of the node.
NodeToJSON(node) == [process_id |-> node.process_id]

\* toJSON that copies no metadata.
toJSON_noMeta(self) ==
    [process_graph |-> [k \in DOMAIN self.nodes |-> NodeToJSON(self.nodes[k])],
     meta |-> <<>>]

\* Builder.toJSON(): the object it returns, as the process_graph and the other
\* keys of the object with their values.
toJSON(self) ==
    LET keys == {PROCESS_META[i] : i \in 1..Len(PROCESS_META)}
    IN [process_graph |-> [k \in DOMAIN self.nodes |-> NodeToJSON(self.nodes[k])],
        meta |-> [key \in {k \in keys : ~isUndefined(self, k)} |-> get(self, key)]]

\* ------------------------------------------------------------- Capabilities
\* The data of a capabilities document: whether it is an object, its
\* api_version ("" when absent), whether endpoints is an array, and the
\* endpoints, each with a path and a list of methods.
Endpoint(path, methods) == [path |-> path, methods |-> methods]
CapabilitiesData(isObj, api_version, isArr, endpoints) ==
    [isObject |-> isObj, api_version |-> api_version, endpointsIsArray |-> isArr,
     endpoints |-> endpoints]

\* Array.prototype.map over the methods of one endpoint, lower-cased or not.
methodFeatures(e, lower) ==
    [i \in 1..Len(e.methods) |->
        LET f == e.methods[i] \o <<" ">> \o e.path
        IN IF lower THEN toLowerCase(f) ELSE f]

\* The flattening of the lists of all endpoints.
RECURSIVE flat(_, _)
flat(endpoints, lower) ==
    IF endpoints = <<>> THEN <<>>
    ELSE methodFeatures(endpoints[1], lower) \o flat(Tail(endpoints), lower)

\* this.features that keeps the case of the endpoints.
features_caseSensitive(endpoints) == flat(endpoints, FALSE)

\* this.features: method + ' ' + path of every method of every endpoint, in
\* lower case.
features(endpoints) == flat(endpoints, TRUE)

\* this.featureMap, for the features of the jobs and of the capabilities; the
\* other entries of the map have the same form.
FeatureNames == <<"capabilities", "listJobs", "createJob", "getJobById", "describeJob">>
featureMap ==
    [f \in {FeatureNames[i] : i \in 1..Len(FeatureNames)} |->
        CASE f = "capabilities" -> <<"g","e","t"," ","/">>
          [] f = "listJobs" -> <<"g","e","t"," ","/","j","o","b","s">>
          [] f = "createJob" -> <<"p","o","s","t"," ","/","j","o","b","s">>
          [] OTHER -> <<"g","e","t"," ","/","j","o","b","s","/","{","j","o","b","_","i","d","}">>]

\* new Capabilities(data)
Capabilities(data) ==
    IF ~data.isObject
    THEN [threw |-> TRUE, error |-> "No capabilities retrieved.", self |-> <<>>]
    ELSE IF data.api_version = <<>>
    THEN [threw |-> TRUE, error |-> "Invalid capabilities: No API version retrieved",
          self |-> <<>>]
    ELSE IF ~data.endpointsIsArray
    THEN [threw |-> TRUE, error |-> "Invalid capabilities: No endpoints retrieved",
          self |-> <<>>]
    ELSE [threw |-> FALSE, error |-> "",
          self |-> <<[data |-> data, features |-> features(data.endpoints)]>>]

\* capabilities.hasFeature(methodName); for a name the map does not hold,
\* this.featureMap[methodName] is undefined or a member inherited from
\* Object.prototype, and no feature, being a string, is identical to it.
hasFeature(self, methodName) ==
    \E i \in 1..Len(self.features) :
        /\ methodName \in DOMAIN featureMap
        /\ self.features[i] = featureMap[methodName]

\* capabilities.listFeatures(): the names of the map, in its order, whose
\* value this.features includes.
listFeatures(self) ==
    SelectSeq(FeatureNames,
              LAMBDA f : \E i \in 1..Len(self.features) : self.features[i] = featureMap[f])

\* --------------------------------------------------------------------- Util
\* A value handed in as a version number: a string, as the sequence of its
\* characters, or something that is no string.
Version(chars) == [type |-> "string", chars |-> chars]
NoString == [type |-> "undefined", chars |-> <<>>]

\* String.prototype.split('.'): the parts between the dots.
RECURSIVE split(_)
split(s) ==
    IF \E i \in 1..Len(s) : s[i] = "."
    THEN LET i == CHOOSE j \in 1..Len(s) :
                      s[j] = "." /\ \A k \in 1..(j - 1) : s[k] # "."
         IN <<SubSeq(s, 1, i - 1)>> \o split(SubSeq(s, i + 1, Len(s)))
    ELSE <<s>>

\* Array.prototype.join('.')
RECURSIVE join(_)
join(parts) ==
    IF Len(parts) = 1 THEN parts[1]
    ELSE parts[1] \o <<".">> \o join(Tail(parts))

\* The position of a digit character in "0123456789", which orders the digits
\* as their character codes do; 0 for another character.
DigitIndex(ch) ==
    IF \E i \in 1..10 : Digits[i] = ch THEN CHOOSE i \in 1..10 : Digits[i] = ch ELSE 0

\* /^\d+$/.test(part)
isNumeric(part) == Len(part) > 0 /\ \A i \in 1..Len(part) : DigitIndex(part[i]) > 0

\* Util.validateVersionNumber(v)
validateVersionNumber(v) ==
    /\ v.type = "string"
    /\ \A i \in 1..Len(split(v.chars)) : isNumeric(split(v.chars)[i])

\* The number a string of digits converts to.
RECURSIVE ToNumber(_)
ToNumber(part) ==
    IF part = <<>> THEN 0
    ELSE 10 * ToNumber(SubSeq(part, 1, Len(part) - 1)) + (DigitIndex(part[Len(part)]) - 1)

\* left < right for two strings of digits: the comparison of strings, character
\* by character, a proper prefix being less.
RECURSIVE StringLess(_, _)
StringLess(left, right) ==
    IF right = <<>> THEN FALSE
    ELSE IF left = <<>> THEN TRUE
    ELSE IF left[1] # right[1] THEN DigitIndex(left[1]) < DigitIndex(right[1])
    ELSE StringLess(Tail(left), Tail(right))

\* left < right in compareVersionNumbers: a component is the string of the
\* part, or the number 0 (here <<>>) when the version has no such part.  Two
\* strings are compared as strings; with a number involved both are numbers.
Less(left, right) ==
    IF left # <<>> /\ right # <<>> THEN StringLess(left[1], right[1])
    ELSE (IF left = <<>> THEN 0 ELSE ToNumber(left[1]))
            < (IF right = <<>> THEN 0 ELSE ToNumber(right[1]))

\* The loop of compareVersionNumbers from index i on.
RECURSIVE compareParts(_, _, _)
compareParts(v1p, v2p, i) ==
    IF i > Len(v1p) /\ i > Len(v2p) THEN 0
    ELSE LET left == IF i <= Len(v1p) THEN <<v1p[i]>> ELSE <<>>
             right == IF i <= Len(v2p) THEN <<v2p[i]>> ELSE <<>>
         IN IF Less(left, right) THEN -1
            ELSE IF Less(right, left) THEN 1
            ELSE compareParts(v1p, v2p, i + 1)

\* Util.compareVersionNumbers(v1, v2): <<>> for null, else <<the number>>.
compareVersionNumbers(v1, v2) ==
    IF ~validateVersionNumber(v1) \/ ~validateVersionNumber(v2) THEN <<>>
    ELSE <<compareParts(split(v1.chars), split(v2.chars), 1)>>

\* An entry of a well-known document: whether its url is a string, its
\* api_version, and its production field ("true", "false" or "undefined").
Entry(url, api_version, production) ==
    [url |-> url, api_version |-> api_version, production |-> production]

\* The test of the filter in mostCompatible.
compatible(c) ==
    /\ c.url
    /\ validateVersionNumber(c.api_version)
    /\ startsWith(c.api_version.chars, <<"0", ".", "4", ".">>)

\* Array.prototype.filter with that test.
RECURSIVE filter(_)
filter(versions) ==
    IF versions = <<>> THEN <<>>
    ELSE (IF compatible(versions[1]) THEN <<versions[1]>> ELSE <<>>)
            \o filter(Tail(versions))

\* The comparison function mostCompatible sorts with.
compare(c1, c2) ==
    LET p1 == c1.production # "false"
        p2 == c2.production # "false"
    IN IF p1 = p2 THEN compareVersionNumbers(c1.api_version, c2.api_version)[1] * (-1)
       ELSE IF p1 THEN -1
       ELSE 1

\* Array.prototype.sort(compare) on list: the orders it can leave the elements
\* in.  With a comparison function that is a consistent order these are the
\* orders in which no element comes after one that compares greater; with any
\* other the order is implementation-defined.
sort(list) ==
    LET n == Len(list)
        I == 1..n
        Orders == {p \in [I -> I] : \A i, j \in I : p[i] = p[j] => i = j}
        Consistent ==
            /\ \A i, j \in I :
                  (compare(list[i], list[j]) < 0) = (compare(list[j], list[i]) > 0)
            /\ \A i, j, k \in I :
                  (compare(list[i], list[j]) <= 0 /\ compare(list[j], list[k]) <= 0)
                      => compare(list[i], list[k]) <= 0
        Sorted(p) == \A i, j \in I : i < j => compare(list[p[i]], list[p[j]]) <= 0
    IN {[i \in I |-> list[p[i]]] : p \in {q \in Orders : ~Consistent \/ Sorted(q)}}

\* Util.mostCompatible(versions): the lists it can return.
mostCompatible(versions) ==
    IF ~versions.isArray THEN {<<>>}
    ELSE IF filter(versions.items) = <<>> THEN {<<>>}
    ELSE sort(filter(versions.items))

\* ----------------------------------------------------------- Subscriptions
\* The values a caller passes: undefined, a function, a string, or an object
\* that is {} (id absent), {job_id: undefined} or {job_id: "<id>"}.
Undefined == [type |-> "undefined", id |-> ""]
Function(id) == [type |-> "function", id |-> id]
String(id) == [type |-> "string", id |-> id]
Object(job_id) == [type |-> "object", id |-> job_id]

\* Util.hash(o): the string handed to Util.hashString, as the sequence of its
\* parts; hashString is a function of that string, so equal strings are equal
\* keys.
hash(o) ==
    CASE o.type = "string" -> <<"s:", o.id>>
      [] o.type = "object" ->
             IF o.id = ABSENT THEN <<>>
             ELSE IF o.id = "undefined" THEN <<"o:job_id:", "undefined">>
             ELSE <<"o:job_id:", "s:", o.id>>
      [] OTHER -> <<o.type>>

\* new Subscriptions(httpConnection).  listeners maps a topic to a map from
\* hashes to callbacks; the socket is null or its readyState; wire holds the
\* messages the current socket has sent.
Subscriptions ==
    [socket |-> NULL, listeners |-> <<>>, supportedTopics |-> FALSE,
     messageQueue |-> <<>>, wire |-> <<>>]

\* subscriptions._flushQueue()
flushQueue(subs) ==
    IF subs.socket = "OPEN"
    THEN [subs EXCEPT !.wire = @ \o subs.messageQueue, !.messageQueue = <<>>]
    ELSE subs

\* subscriptions._sendMessage(topic, payload, priority); payload is <<>> for
\* null, else the one entry of payload.topics.
sendMessage(subs, accessToken, topic, payload, priority) ==
    LET obj == [authorization |-> accessToken, topic |-> "openeo." \o topic,
                payload |-> payload]
    IN flushQueue([subs EXCEPT !.messageQueue =
                       IF priority THEN <<obj>> \o @ ELSE Append(@, obj)])

\* subscriptions._createWebSocket(), with the _sendAuthorize() in it
createWebSocket(subs, accessToken) ==
    IF subs.socket \in {NULL, "CLOSING"}
    THEN sendMessage([subs EXCEPT !.messageQueue = <<>>, !.socket = "CONNECTING",
                                  !.wire = <<>>],
                     accessToken, "authorize", <<>>, TRUE)
    ELSE subs

\* subscriptions._sendSubscription(action, topic, parameters)
sendSubscription(subs, accessToken, action, topic, parameters) ==
    LET ps == IF parameters.type = "object" THEN parameters ELSE Object(ABSENT)
    IN sendMessage(createWebSocket(subs, accessToken), accessToken, action,
                   <<[topic |-> topic, job_id |-> ps.id]>>, FALSE)

\* subscriptions.subscribe(topic, callback, parameters = {})
SubscriptionsSubscribe(subs, accessToken, topic, callback, parameters) ==
    LET ps == IF parameters = Undefined THEN Object(ABSENT) ELSE parameters
        topicListeners == IF topic \in DOMAIN subs.listeners
                          THEN subs.listeners[topic] ELSE <<>>
    IN IF callback.type # "function"
       THEN [subs |-> subs, threw |-> TRUE, error |-> "No valid callback specified."]
       ELSE [subs |-> sendSubscription(
                          [subs EXCEPT !.listeners =
                              (topic :> ((hash(ps) :> callback) @@ topicListeners)) @@ @],
                          accessToken, "subscribe", topic, ps),
             threw |-> FALSE, error |-> ""]

\* Removal of a key from a map.
delete(map, key) == [k \in DOMAIN map \ {key} |-> map[k]]

\* subscriptions.unsubscribe(topic, parameters = {})
SubscriptionsUnsubscribe(subs, accessToken, topic, parameters) ==
    LET ps == IF parameters = Undefined THEN Object(ABSENT) ELSE parameters
    IN IF topic \notin DOMAIN subs.listeners
       THEN [subs |-> subs, threw |-> TRUE,
             error |-> "this.listeners must be a Map of Maps"]
       ELSE LET topicListeners == delete(subs.listeners[topic], hash(ps))
                listeners == IF DOMAIN topicListeners = {}
                             THEN delete(subs.listeners, topic)
                             ELSE [subs.listeners EXCEPT ![topic] = topicListeners]
                sent == sendSubscription([subs EXCEPT !.listeners = listeners],
                                         accessToken, "unsubscribe", topic, ps)
            IN [subs |-> IF DOMAIN listeners = {}
                         THEN [sent EXCEPT !.socket = "CLOSING"] ELSE sent,
                threw |-> FALSE, error |-> ""]

\* connection.subscribe(topic, callback, parameters = {}): the call it makes is
\* this.subscriptionsObject.subscribe(topic, parameters, callback).
subscribe(self, topic, callback, parameters) ==
    LET ps == IF parameters = Undefined THEN Object(ABSENT) ELSE parameters
    IN SubscriptionsSubscribe(self.subscriptionsObject, self.accessToken, topic,
                              ps, callback)

\* connection.unsubscribe(topic, parameters = {})
unsubscribe(self, topic, parameters) ==
    LET ps == IF parameters = Undefined THEN Object(ABSENT) ELSE parameters
    IN SubscriptionsUnsubscribe(self.subscriptionsObject, self.accessToken, topic, ps)

\* subscriptions._receiveMessage(event): the subscriptions after it and the
\* callback it has called, if any.  job_id is ABSENT when the payload has none.
receiveMessage(subs, topic, job_id) ==
    IF topic = "openeo.welcome"
    THEN [subs |-> [subs EXCEPT !.supportedTopics = TRUE], called |-> <<>>]
    ELSE LET topicListeners == IF topic \in DOMAIN subs.listeners
                               THEN subs.listeners[topic] ELSE <<>>
             own == hash(Object(IF job_id = ABSENT THEN "undefined" ELSE job_id))
             callback == IF hash(Object(ABSENT)) \in DOMAIN topicListeners
                         THEN <<topicListeners[hash(Object(ABSENT))]>>
                         ELSE IF own \in DOMAIN topicListeners
                              THEN <<topicListeners[own]>>
                              ELSE <<>>
         IN [subs |-> subs,
             called |-> IF callback # <<>> /\ callback[1].type = "function"
                        THEN callback ELSE <<>>]

\* -------------------------------------------------------------- Connection
\* The api_version values a back-end reports: 0.4.2, 0.40, 1.0.0.
ApiVersions ==
    { <<"0", ".", "4", ".", "2">>, <<"0", ".", "4", "0">>, <<"1", ".", "0", ".", "0">> }

\* JavaScript truthiness of the values of a response field.
Truthy(v) == v \notin {ABSENT, ""}

\* The user a sign-in yields: null, or an object with or without a profile,
\* the profile with or without sub, and with or without an id_token.
User(isNull, profile, sub, id_token) ==
    [isNull |-> isNull, profile |-> profile, sub |-> sub, id_token |-> id_token]
NoUser == User(TRUE, FALSE, ABSENT, ABSENT)

\* The data of a response: whether it is an object, and the fields the
\* handlers read.  An absent api_version is the empty string.
NoData ==
    [isObject |-> TRUE, user_id |-> ABSENT, access_token |-> ABSENT,
     api_version |-> <<>>, endpoints |-> FALSE, responseURL |-> FALSE,
     user |-> NoUser]

\* What an awaited promise settles with.
Resolved(data) == [ok |-> TRUE, data |-> data]
Rejected == [ok |-> FALSE, data |-> NoData]

CapabilitiesResponses ==
    {Rejected, Resolved([NoData EXCEPT !.isObject = FALSE])}
      \cup {Resolved([NoData EXCEPT !.api_version = v, !.endpoints = e]) :
               v \in ApiVersions \cup {<<>>}, e \in BOOLEAN}

BasicResponses ==
    {Rejected, Resolved([NoData EXCEPT !.isObject = FALSE])}
      \cup {Resolved([NoData EXCEPT !.user_id = u, !.access_token = t]) :
               u \in {ABSENT, "", "user1"}, t \in {ABSENT, "token1"}}

AccountResponses ==
    {Rejected, Resolved([NoData EXCEPT !.isObject = FALSE]),
     Resolved(NoData), Resolved([NoData EXCEPT !.user_id = "user2"])}

DiscoveryResponses ==
    {Rejected, Resolved(NoData), Resolved([NoData EXCEPT !.responseURL = TRUE])}

SigninResponses ==
    {Rejected, Resolved(NoData),
     Resolved([NoData EXCEPT !.user = User(FALSE, FALSE, ABSENT, ABSENT)]),
     Resolved([NoData EXCEPT !.user = User(FALSE, TRUE, ABSENT, "token2")]),
     Resolved([NoData EXCEPT !.user = User(FALSE, TRUE, "user3", "token2")]),
     Resolved([NoData EXCEPT !.user = User(FALSE, TRUE, "user3", ABSENT)])}

Responses(awaiting) ==
    CASE awaiting = "/" -> CapabilitiesResponses
      [] awaiting = "/credentials/basic" -> BasicResponses
      [] awaiting = "/me" -> AccountResponses
      [] awaiting = "/credentials/oidc" -> DiscoveryResponses
      [] awaiting = "signinPopup" -> SigninResponses
      [] OTHER -> {Rejected, Resolved(NoData)}

\* new Connection(baseUrl).  returned tells whether the caller holds the
\* object; sent are the urls the connection has requested.
Connection(returned) ==
    [userId |-> NULL, accessToken |-> NULL, oidc |-> NULL, oidcUser |-> NULL,
     capabilitiesObject |-> <<>>, subscriptionsObject |-> Subscriptions,
     returned |-> returned, sent |-> {}]

\* connection.getUserId()
getUserId(self) == self.userId

\* connection.isLoggedIn()
isLoggedIn(self) == self.accessToken # NULL

\* connection._send(options): the request goes out.
send(self, url) == [self EXCEPT !.sent = @ \cup {url}]

\* How a step of an asynchronous call ends: it throws, it returns, or it waits
\* for the next promise.
Throw(self, error) == [state |-> "rejected", self |-> self, error |-> error, awaiting |-> NULL]
Return(self) == [state |-> "resolved", self |-> self, error |-> "", awaiting |-> NULL]
Await(self, awaiting) == [state |-> "await", self |-> self, error |-> "", awaiting |-> awaiting]

\* new Capabilities(data) and the assignment in init, after the response to
\* the request of /
init(self, response) ==
    IF ~response.ok THEN Throw(self, "request failed")
    ELSE IF ~response.data.isObject THEN Throw(self, "No capabilities retrieved.")
    ELSE IF response.data.api_version = <<>>
         THEN Throw(self, "Invalid capabilities: No API version retrieved")
    ELSE IF ~response.data.endpoints
         THEN Throw(self, "Invalid capabilities: No endpoints retrieved")
    ELSE Return([self EXCEPT !.capabilitiesObject = <<response.data>>])

\* capabilities.apiVersion()
apiVersion(capabilities) == capabilities.api_version

\* authenticateBasic that stores the user id before it looks at the token.
authenticateBasic_storeThenCheck(self, response) ==
    IF ~response.ok THEN Throw(self, "request failed")
    ELSE IF ~Truthy(response.data.user_id) THEN Throw(self, "No user_id returned.")
    ELSE IF ~Truthy(response.data.access_token)
         THEN Throw([self EXCEPT !.userId = response.data.user_id],
                    "No access_token returned.")
    ELSE Return([self EXCEPT !.userId = response.data.user_id,
                             !.accessToken = response.data.access_token])

\* connection.authenticateBasic(username, password), after the response to
\* the request of /credentials/basic.  Data that is no object has no user_id.
authenticateBasic(self, response) ==
    IF ~response.ok THEN Throw(self, "request failed")
    ELSE IF ~Truthy(response.data.user_id) THEN Throw(self, "No user_id returned.")
    ELSE IF ~Truthy(response.data.access_token)
         THEN Throw(self, "No access_token returned.")
    ELSE Return([self EXCEPT !.userId = response.data.user_id,
                             !.accessToken = response.data.access_token])

\* connection.setUserOIDC(user).  A missing id_token is stored as undefined.
setUserOIDC(self, user) ==
    IF user.isNull
    THEN Return([self EXCEPT !.oidcUser = NULL, !.userId = NULL, !.accessToken = NULL])
    ELSE IF ~user.profile THEN Throw(self, "Retrieved token is invalid.")
    ELSE Return([self EXCEPT !.oidcUser = "user",
                             !.userId = IF Truthy(user.sub) THEN user.sub ELSE @,
                             !.accessToken = IF user.id_token = ABSENT
                                             THEN "undefined" ELSE user.id_token])

\* connection.authenticateOIDC(authOptions), up to its first await.
authenticateOIDC(self, node) ==
    IF node
    THEN Throw(self, "OpenID Connect authentication is only supported in a browser environment")
    ELSE Await(send(self, "/credentials/oidc"), "/credentials/oidc")

\* authenticateOIDC after the response to the request of /credentials/oidc.
authenticateOIDCDiscovered(self, response, uiMethod) ==
    IF ~response.ok THEN Throw(self, "request failed")
    ELSE IF ~response.data.responseURL
         THEN Throw(self, "No URL available for OpenID Connect Discovery")
    ELSE Await([self EXCEPT !.oidc = "UserManager"],
               IF uiMethod = "popup" THEN "signinPopup" ELSE "signinRedirect")

\* authenticateOIDC after oidc.signinPopup() or oidc.signinRedirect().
authenticateOIDCSignedIn(self, response, awaiting) ==
    IF ~response.ok THEN Throw(self, "signin failed")
    ELSE IF awaiting = "signinPopup" THEN setUserOIDC(self, response.data.user)
    ELSE Return(self)

\* connection.logout(), up to its first await or, without one, to its end.
logout(self) ==
    IF self.oidc # NULL THEN Await(self, "signoutRedirect")
    ELSE Return([self EXCEPT !.userId = NULL, !.accessToken = NULL])

\* logout after oidc.signoutRedirect().
logoutSignedOut(self, response) ==
    IF ~response.ok THEN Throw(self, "signout failed")
    ELSE Return([self EXCEPT !.oidc = NULL, !.oidcUser = NULL,
                             !.userId = NULL, !.accessToken = NULL])

\* connection.describeAccount(), after the response to the request of /me.
describeAccount(self, response) ==
    IF ~response.ok THEN Throw(self, "request failed")
    ELSE IF response.data.isObject /\ Truthy(response.data.user_id)
         THEN Return([self EXCEPT !.userId = response.data.user_id])
    ELSE Return(self)

\* connectDirect that authenticates before it looks at the version.
connectDirect_noVersionCheck(self, response, authType, node) ==
    LET r == init(self, response)
    IN IF r.state = "rejected" THEN r
       ELSE IF authType = NULL THEN Return(r.self)
       ELSE IF authType = "basic"
            THEN Await(send(r.self, "/credentials/basic"), "/credentials/basic")
       ELSE IF authType = "oidc" THEN authenticateOIDC(r.self, node)
       ELSE Throw(r.self, "Unknown authentication type.")

\* OpenEO.connectDirect(versionedUrl, authType, authOptions), after the
\* response to the request of / that connection.init() has made: the version
\* check, then the switch on authType up to the await in it.
connectDirect(self, response, authType, node) ==
    LET r == init(self, response)
    IN IF r.state = "rejected" THEN r
       ELSE IF ~startsWith(apiVersion(r.self.capabilitiesObject[1]), <<"0", ".", "4", ".">>)
            THEN Throw(r.self, "Server instance doesn't support API version 0.4.x.")
       ELSE IF authType = NULL THEN Return(r.self)
       ELSE IF authType = "basic"
            THEN Await(send(r.self, "/credentials/basic"), "/credentials/basic")
       ELSE IF authType = "oidc" THEN authenticateOIDC(r.self, node)
       ELSE Throw(r.self, "Unknown authentication type.")

\* An asynchronous call that waits: the function the caller has called, the
\* connection, the promise it waits for and the arguments it still needs.
Pending(fn, c, awaiting, authType, uiMethod) ==
    [fn |-> fn, c |-> c, awaiting |-> awaiting, authType |-> authType,
     uiMethod |-> uiMethod]

\* The code that runs when the promise a call waits for settles.
Continue(p, self, response) ==
    CASE p.awaiting = "/" /\ p.fn = "connectDirect" ->
             connectDirect(self, response, p.authType, isNode)
      [] p.awaiting = "/" /\ p.fn # "connectDirect" -> init(self, response)
      [] p.awaiting = "/credentials/basic" -> authenticateBasic(self, response)
      [] p.awaiting = "/credentials/oidc" ->
             authenticateOIDCDiscovered(self, response, p.uiMethod)
      [] p.awaiting \in {"signinPopup", "signinRedirect"} ->
             authenticateOIDCSignedIn(self, response, p.awaiting)
      [] p.awaiting = "signoutRedirect" -> logoutSignedOut(self, response)
      [] p.awaiting = "/me" -> describeAccount(self, response)
      [] OTHER -> IF response.ok THEN Return(self) ELSE Throw(self, "request failed")

RemoveAt(seq, i) == SubSeq(seq, 1, i - 1) \o SubSeq(seq, i + 1, Len(seq))

\* ----------------------------------------------------------------- Formula
\* A formula is the sequence of its tokens: + - * / ( ) NUMBER VARIABLE.
Numbers == {"2", "3", "4"}
Variables == {"x", "$x"}
AdditiveOperators == {"+", "-"}
MultiplicativeOperators == {"*", "/"}

\* The formulas handed to math: two with a syntax error after a well-formed
\* part, three well-formed ones.  None is a single operand and none uses the
\* unary minus.
Formulas ==
    { <<"2", "+", "*", "3">>,
      <<"(", "2", "+", "3">>,
      <<"2", "+", "3">>,
      <<"2", "+", "3", "*", "4">>,
      <<"(", "x", "-", "3", ")", "/", "2">> }

\* Expression trees and parser results.
Leaf(kind, value) == [kind |-> kind, value |-> value, args |-> <<>>]
Binary(op, left, right) == [kind |-> "operator", value |-> op, args |-> <<left, right>>]
Parsed(tree, pos) == [ok |-> TRUE, tree |-> <<tree>>, pos |-> pos]
SyntaxError(pos) == [ok |-> FALSE, tree |-> <<>>, pos |-> pos]

tokenAt(tokens, pos) == IF pos \in 1..Len(tokens) THEN tokens[pos] ELSE "<end>"

\* The parser: precedence climbing, * and / above + and -, parentheses
\* override.  A result is a tree and the position after it, or the position of
\* the offending token.
RECURSIVE parseExpression(_, _), parseExpressionRest(_, _, _)
RECURSIVE parseTerm(_, _), parseTermRest(_, _, _), parseFactor(_, _)

parseFactor(tokens, pos) ==
    LET t == tokenAt(tokens, pos)
    IN IF t \in Numbers THEN Parsed(Leaf("number", t), pos + 1)
       ELSE IF t \in Variables THEN Parsed(Leaf("variable", t), pos + 1)
       ELSE IF t = "("
            THEN LET e == parseExpression(tokens, pos + 1)
                 IN IF ~e.ok THEN e
                    ELSE IF tokenAt(tokens, e.pos) = ")"
                         THEN Parsed(e.tree[1], e.pos + 1)
                         ELSE SyntaxError(e.pos)
            ELSE SyntaxError(pos)

parseTermRest(tokens, pos, left) ==
    IF tokenAt(tokens, pos) \in MultiplicativeOperators
    THEN LET r == parseFactor(tokens, pos + 1)
         IN IF ~r.ok THEN r
            ELSE parseTermRest(tokens, r.pos, Binary(tokens[pos], left, r.tree[1]))
    ELSE Parsed(left, pos)

parseTerm(tokens, pos) ==
    LET l == parseFactor(tokens, pos)
    IN IF ~l.ok THEN l ELSE parseTermRest(tokens, l.pos, l.tree[1])

parseExpressionRest(tokens, pos, left) ==
    IF tokenAt(tokens, pos) \in AdditiveOperators
    THEN LET r == parseTerm(tokens, pos + 1)
         IN IF ~r.ok THEN r
            ELSE parseExpressionRest(tokens, r.pos, Binary(tokens[pos], left, r.tree[1]))
    ELSE Parsed(left, pos)

parseExpression(tokens, pos) ==
    LET l == parseTerm(tokens, pos)
    IN IF ~l.ok THEN l ELSE parseExpressionRest(tokens, l.pos, l.tree[1])

\* new Formula(formula): the whole token sequence must be one expression.
parse(tokens) ==
    LET e == parseExpression(tokens, 1)
    IN IF e.ok /\ e.pos <= Len(tokens) THEN SyntaxError(e.pos) ELSE e

\* The arithmetic operation of an operator token.
Operation(op) ==
    CASE op = "+" -> add
      [] op = "-" -> subtract
      [] op = "*" -> multiply
      [] op = "/" -> divide

\* The post-order walk of a tree on the builder object self, which is builder
\* b: the operands of an operator are compiled first, left before right, then
\* the operation is called on the builder.  A leaf creates no node.
RECURSIVE parseTree(_, _, _)
parseTree(self, b, tree) ==
    IF tree.kind # "operator" THEN [self |-> self, node |-> <<>>]
    ELSE LET l == parseTree(self, b, tree.args[1])
             r == parseTree(l.self, b, tree.args[2])
             p == process(r.self, b, Operation(tree.value))
         IN [self |-> p.self, node |-> <<p.node>>]

\* formula.generate(setResultNode): the builder after the walk and the final
\* node, which is marked as the result node when setResultNode is set.
generate(self, b, tree, setResultNode) ==
    LET f == parseTree(self, b, tree)
    IN IF f.node = <<>> THEN [self |-> self, threw |-> TRUE, node |-> <<>>]
       ELSE IF setResultNode
            THEN LET n == [f.node[1] EXCEPT !.result = TRUE]
                 IN [self |-> [f.self EXCEPT !.nodes[n.id] = n],
                     threw |-> FALSE, node |-> <<n>>]
            ELSE [self |-> f.self, threw |-> FALSE, node |-> f.node]

\* math that creates the nodes of what it has read when it meets the error.
math_generateWhileParsing(self, b, formula) ==
    LET t == parse(formula)
        Starts == {i \in 1..(t.pos - 1) : parse(SubSeq(formula, i, t.pos - 1)).ok}
    IN IF t.ok THEN generate(self, b, t.tree[1], FALSE)
       ELSE IF Starts = {} THEN [self |-> self, threw |-> TRUE, node |-> <<>>]
       ELSE LET i == CHOOSE j \in Starts : \A k \in Starts : j <= k
            IN [self |-> parseTree(self, b, parse(SubSeq(formula, i, t.pos - 1)).tree[1]).self,
                threw |-> TRUE, node |-> <<>>]

\* Builder.math(formula) on the builder object self, which is builder b:
\* new Formula(formula) parses and throws on a syntax error; then
\* generate(false) creates the nodes.
math(self, b, formula) ==
    LET t == parse(formula)
    IN IF ~t.ok THEN [self |-> self, threw |-> TRUE, node |-> <<>>]
       ELSE generate(self, b, t.tree[1], FALSE)

\* ------------------------------------------------------- BaseEntity and Job
\* The properties the Job constructor passes to BaseEntity, each as
\* <<backend, client>>: title, description and [process_graph, processGraph].
JobProperties ==
    <<<<"title", "title">>, <<"description", "description">>,
      <<"process_graph", "processGraph">>>>

\* this.clientNames and this.backendNames after the constructor of BaseEntity
clientNames ==
    [backendName \in {JobProperties[i][1] : i \in 1..Len(JobProperties)} |->
        LET i == CHOOSE i \in 1..Len(JobProperties) : JobProperties[i][1] = backendName
        IN JobProperties[i][2]]
backendNames ==
    [client \in {JobProperties[i][2] : i \in 1..Len(JobProperties)} |->
        LET i == CHOOSE i \in 1..Len(JobProperties) : JobProperties[i][2] = client
        IN JobProperties[i][1]]

\* new Job(connection, jobId): every client property is null, extra is empty.
\* own holds the properties this[client].
Job(c, jobId) ==
    [connection |-> c, jobId |-> jobId,
     own |-> [client \in DOMAIN backendNames |-> NULL], extra |-> EmptyObject]

\* o[key] = value
Assign(o, key, value) ==
    [k \in DOMAIN o \cup {key} |-> IF k = key THEN value ELSE o[k]]

\* entity.setAll(metadata), for the names of metadata still to visit
RECURSIVE setAllNames(_, _, _)
setAllNames(self, metadata, names) ==
    IF names = {} THEN self
    ELSE LET name == CHOOSE name \in names : TRUE
             next == IF name \notin DOMAIN clientNames
                     THEN [self EXCEPT !.extra = Assign(@, name, metadata[name])]
                     ELSE [self EXCEPT !.own = Assign(@, clientNames[name], metadata[name])]
         IN setAllNames(next, metadata, names \ {name})

\* entity.setAll(metadata)
setAll(self, metadata) == setAllNames(self, metadata, DOMAIN metadata)

\* entity._convertToRequest(parameters), for the keys still to visit
RECURSIVE convertToRequestKeys(_, _, _)
convertToRequestKeys(request, parameters, keys) ==
    IF keys = {} THEN request
    ELSE LET key == CHOOSE key \in keys : TRUE
             next == IF key \notin DOMAIN backendNames
                     THEN Assign(request, key, parameters[key])
                     ELSE Assign(request, backendNames[key], parameters[key])
         IN convertToRequestKeys(next, parameters, keys \ {key})

\* entity._convertToRequest(parameters)
convertToRequest(parameters) ==
    convertToRequestKeys(EmptyObject, parameters, DOMAIN parameters)

\* connection.capabilities(), of a connection that has been initialised
capabilitiesOf(c) == c.capabilitiesObject[1]

\* entity._supports(feature)
supports(c, feature) == hasFeature(capabilitiesOf(c), feature)

\* job.describeJob(), after the response to GET /jobs/{job_id}
describeJob(self, response) ==
    IF ~response.ok THEN Throw(self, "request failed")
    ELSE Return(setAll(self, response.data))

\* job.updateJob(parameters), after the response to PATCH /jobs/{job_id}: c is
\* the connection of the job.
updateJob(self, c, parameters, response) ==
    IF ~response.ok THEN Throw(self, "request failed")
    ELSE IF supports(c, "describeJob") THEN Await(self, "get /jobs/{job_id}")
    ELSE Return(setAll(self, parameters))

\* The back-end's answer to PATCH /jobs/{job_id}: the metadata it stores
\* afterwards.
patch(metadata, request) ==
    [k \in DOMAIN metadata \cup DOMAIN request |->
        IF k \in DOMAIN request THEN request[k] ELSE metadata[k]]

\* A call of a job that waits: the function called, the job, the request it
\* waits for, and the parameters and the request body of updateJob.
JobPending(fn, j, awaiting, parameters, request) ==
    [fn |-> fn, c |-> j, awaiting |-> awaiting, authType |-> NULL, uiMethod |-> NULL,
     parameters |-> parameters, request |-> request]

\* ----------------------------------------------------------------- actions
Init ==
    /\ builder = <<>>
    /\ heap = <<>>
    /\ paramObjs = <<>>
    /\ job = <<>>
    /\ backend = EmptyObject
    /\ last = NoCall
    /\ connection = <<>>
    /\ pending = <<>>
    /\ isNode = TRUE

\* new Builder(processes, parent, id)
NewBuilder(processes, parent, id) ==
    /\ Len(builder) < MaxBuilders
    /\ parent \in 0..Len(builder)
    /\ IF constructorThrows(processes)
       THEN /\ builder' = builder
            /\ last' = [NoCall EXCEPT !.op = "new", !.threw = TRUE]
       ELSE /\ builder' = Append(builder, Builder(processes, parent, id))
            /\ last' = [NoCall EXCEPT !.op = "new", !.b = Len(builder) + 1]
    /\ UNCHANGED <<heap, paramObjs>>
    /\ UNCHANGED connectionVars
    /\ UNCHANGED entityVars

\* builder.setParent(node, parameterName)
SetParent(b, node, parameterName) ==
    /\ b \in Builders
    /\ builder' = [builder EXCEPT ![b] = setParent(@, node, parameterName)]
    /\ last' = [NoCall EXCEPT !.op = "setParent", !.b = b, !.node = <<node>>,
                               !.param = parameterName]
    /\ UNCHANGED <<heap, paramObjs>>
    /\ UNCHANGED connectionVars
    /\ UNCHANGED entityVars

\* builder.generateId(name)
GenerateId(b, name) ==
    /\ b \in Builders
    /\ LET g == generateId(builder[b], name)
       IN /\ builder' = [builder EXCEPT ![b].idCounter = g.idCounter]
          /\ last' = [NoCall EXCEPT !.op = "generateId", !.b = b, !.name = name,
                                     !.ret = g.id]
    /\ UNCHANGED <<heap, paramObjs>>
    /\ UNCHANGED connectionVars
    /\ UNCHANGED entityVars

\* builder.process(processId, args)
Process(b, processId) ==
    /\ b \in Builders
    /\ LET r == process(builder[b], b, processId)
       IN /\ builder' = [builder EXCEPT ![b] = r.self]
          /\ last' = [NoCall EXCEPT !.op = "process", !.b = b, !.name = processId,
                                     !.node = <<r.node>>, !.ret = r.node.id]
    /\ UNCHANGED <<heap, paramObjs>>
    /\ UNCHANGED connectionVars
    /\ UNCHANGED entityVars

\* builder.createCallbackParameter(parameterName)
CreateCallbackParameter(b, parameterName) ==
    /\ b \in Builders
    /\ LET r == createCallbackParameter(builder[b].callbackParameterCache,
                                        paramObjs, b, parameterName)
       IN /\ builder' = [builder EXCEPT ![b].callbackParameterCache = r.cache]
          /\ paramObjs' = r.count
          /\ last' = [NoCall EXCEPT !.op = "createCallbackParameter", !.b = b,
                                     !.param = parameterName, !.ret = <<r.parameter>>]
    /\ UNCHANGED heap
    /\ UNCHANGED connectionVars
    /\ UNCHANGED entityVars

\* builder.getParentCallbackParameters()
GetParentCallbackParameters(b) ==
    /\ b \in Builders
    /\ LET r == getParentCallbackParameters(builder[b], b)
       IN /\ builder' = [builder EXCEPT ![b].callbackParameterCache = r.cache]
          /\ paramObjs' = r.count
          /\ last' = [NoCall EXCEPT !.op = "getParentCallbackParameters", !.b = b,
                                     !.threw = r.threw, !.ret = r.params]
    /\ UNCHANGED heap
    /\ UNCHANGED connectionVars
    /\ UNCHANGED entityVars

\* The caller assigns a metadata property: builder[key] = value
SetMeta(b, key, value) ==
    /\ b \in Builders
    /\ builder' = [builder EXCEPT ![b].meta = (key :> value) @@ @]
    /\ last' = [NoCall EXCEPT !.op = "setMeta", !.b = b, !.param = key]
    /\ UNCHANGED <<heap, paramObjs>>
    /\ UNCHANGED connectionVars
    /\ UNCHANGED entityVars

\* builder.toJSON()
ToJSON(b) ==
    /\ b \in Builders
    /\ last' = [NoCall EXCEPT !.op = "toJSON", !.b = b, !.ret = <<toJSON(builder[b])>>]
    /\ UNCHANGED <<builder, heap, paramObjs>>
    /\ UNCHANGED connectionVars
    /\ UNCHANGED entityVars

\* builder.addParameter(parameter, root)
AddParameter(b, ref, fresh, root) ==
    /\ b \in Builders
    /\ ref \in 0..Len(heap)
    /\ \E r \in {addParameter(b, ref, fresh, root)} :
          /\ Len(r.heap) <= MaxObjs
          /\ builder' = r.builder
          /\ heap' = r.heap
          /\ paramObjs' = r.count
          /\ last' = [NoCall EXCEPT !.op = "addParameter", !.b = b,
                           !.param = IF ref = 0 THEN fresh.name ELSE heap[ref].name,
                           !.value = <<IF ref = 0 THEN fresh ELSE heap[ref]>>,
                           !.root = root, !.threw = r.threw]
    /\ UNCHANGED connectionVars
    /\ UNCHANGED entityVars

\* builder.math(formula)
Math(b, formula) ==
    /\ b \in Builders
    /\ LET r == math(builder[b], b, formula)
       IN /\ builder' = [builder EXCEPT ![b] = r.self]
          /\ last' = [NoCall EXCEPT !.op = "math", !.b = b, !.threw = r.threw,
                                     !.value = <<formula>>, !.node = r.node]
    /\ UNCHANGED <<heap, paramObjs>>
    /\ UNCHANGED connectionVars
    /\ UNCHANGED entityVars

\* new Connection(baseUrl)
NewConnection ==
    /\ Len(connection) < MaxConnections
    /\ connection' = Append(connection, Connection(TRUE))
    /\ last' = [NoCall EXCEPT !.op = "newConnection", !.b = Len(connection) + 1]
    /\ UNCHANGED <<pending, isNode>>
    /\ UNCHANGED builderVars
    /\ UNCHANGED entityVars

\* OpenEO.connectDirect(versionedUrl, authType, authOptions), up to the await
\* of connection.init()
ConnectDirect(authType, uiMethod) ==
    /\ Len(connection) < MaxConnections
    /\ Len(pending) < MaxPending
    /\ connection' = Append(connection, send(Connection(FALSE), "/"))
    /\ pending' = Append(pending, Pending("connectDirect", Len(connection) + 1, "/",
                                          authType, uiMethod))
    /\ last' = [NoCall EXCEPT !.op = "call", !.param = "connectDirect",
                               !.b = Len(connection) + 1]
    /\ UNCHANGED isNode
    /\ UNCHANGED builderVars
    /\ UNCHANGED entityVars

\* A method of a connection the caller holds that sends a request and waits
\* for the response: init, authenticateBasic, describeAccount, listFileTypes.
Request(c, fn, url) ==
    /\ c \in 1..Len(connection)
    /\ connection[c].returned
    /\ Len(pending) < MaxPending
    /\ connection' = [connection EXCEPT ![c] = send(@, url)]
    /\ pending' = Append(pending, Pending(fn, c, url, NULL, NULL))
    /\ last' = [NoCall EXCEPT !.op = "call", !.param = fn, !.b = c]
    /\ UNCHANGED isNode
    /\ UNCHANGED builderVars
    /\ UNCHANGED entityVars

\* A method that starts as r tells: authenticateOIDC and logout throw, return
\* or wait.
Start(c, fn, uiMethod, r) ==
    /\ c \in 1..Len(connection)
    /\ connection[c].returned
    /\ r.state = "await" => Len(pending) < MaxPending
    /\ connection' = [connection EXCEPT ![c] = r.self]
    /\ pending' = IF r.state = "await"
                  THEN Append(pending, Pending(fn, c, r.awaiting, NULL, uiMethod))
                  ELSE pending
    /\ last' = IF r.state = "await"
               THEN [NoCall EXCEPT !.op = "call", !.param = fn, !.b = c]
               ELSE [NoCall EXCEPT !.op = fn, !.b = c, !.threw = (r.state = "rejected"),
                                   !.error = r.error]
    /\ UNCHANGED isNode
    /\ UNCHANGED builderVars
    /\ UNCHANGED entityVars

\* connection.authenticateOIDC(authOptions), up to its first await
AuthenticateOIDC(c, uiMethod) ==
    /\ c \in 1..Len(connection)
    /\ Start(c, "authenticateOIDC", uiMethod, authenticateOIDC(connection[c], isNode))

\* connection.logout(), up to its first await
Logout(c) ==
    /\ c \in 1..Len(connection)
    /\ Start(c, "logout", NULL, logout(connection[c]))

\* connection.setUserOIDC(user)
SetUserOIDC(c, user) ==
    /\ c \in 1..Len(connection)
    /\ connection[c].returned
    /\ LET r == setUserOIDC(connection[c], user)
       IN /\ connection' = [connection EXCEPT ![c] = r.self]
          /\ last' = [NoCall EXCEPT !.op = "setUserOIDC", !.b = c,
                                     !.threw = (r.state = "rejected"), !.error = r.error]
    /\ UNCHANGED <<pending, isNode>>
    /\ UNCHANGED builderVars
    /\ UNCHANGED entityVars

\* The promise the i-th waiting call waits for settles with response, and the
\* call runs on to its next await, to its return or to its throw.  last names
\* the promise in param, the call in node and, when the call has ended, the
\* function in op; connectDirect returns its connection.
Settle(i, response) ==
    /\ i \in 1..Len(pending)
    /\ LET p == pending[i]
           r == Continue(p, connection[p.c], response)
           returns == r.state = "resolved" /\ p.fn = "connectDirect"
       IN /\ connection' = [connection EXCEPT ![p.c] =
                               IF returns THEN [r.self EXCEPT !.returned = TRUE]
                               ELSE r.self]
          /\ pending' = IF r.state = "await"
                        THEN [pending EXCEPT ![i].awaiting = r.awaiting]
                        ELSE RemoveAt(pending, i)
          /\ last' = [NoCall EXCEPT
                         !.op = IF r.state = "await" THEN "await" ELSE p.fn,
                         !.b = p.c, !.param = p.awaiting, !.value = <<response>>,
                         !.threw = (r.state = "rejected"), !.error = r.error,
                         !.node = <<p>>,
                         !.ret = IF returns THEN <<p.c>> ELSE <<>>]
    /\ UNCHANGED isNode
    /\ UNCHANGED builderVars
    /\ UNCHANGED entityVars

\* connection.subscribe(topic, callback, parameters)
Subscribe(c, topic, callback, parameters) ==
    /\ c \in 1..Len(connection)
    /\ connection[c].returned
    /\ LET r == subscribe(connection[c], topic, callback, parameters)
       IN /\ Len(r.subs.wire) + Len(r.subs.messageQueue) <= MaxMessages
          /\ connection' = [connection EXCEPT ![c].subscriptionsObject = r.subs]
          /\ last' = [NoCall EXCEPT !.op = "subscribe", !.b = c, !.param = topic,
                                     !.value = <<callback, parameters>>,
                                     !.threw = r.threw, !.error = r.error]
    /\ UNCHANGED <<pending, isNode>>
    /\ UNCHANGED builderVars
    /\ UNCHANGED entityVars

\* connection.unsubscribe(topic, parameters)
Unsubscribe(c, topic, parameters) ==
    /\ c \in 1..Len(connection)
    /\ connection[c].returned
    /\ LET r == unsubscribe(connection[c], topic, parameters)
       IN /\ Len(r.subs.wire) + Len(r.subs.messageQueue) <= MaxMessages
          /\ connection' = [connection EXCEPT ![c].subscriptionsObject = r.subs]
          /\ last' = [NoCall EXCEPT !.op = "unsubscribe", !.b = c, !.param = topic,
                                     !.value = <<parameters>>,
                                     !.threw = r.threw, !.error = r.error]
    /\ UNCHANGED <<pending, isNode>>
    /\ UNCHANGED builderVars
    /\ UNCHANGED entityVars

\* The socket's open event: the listener calls _flushQueue().
SocketOpen(c) ==
    /\ c \in 1..Len(connection)
    /\ connection[c].subscriptionsObject.socket = "CONNECTING"
    /\ connection' = [connection EXCEPT ![c].subscriptionsObject =
                          flushQueue([@ EXCEPT !.socket = "OPEN"])]
    /\ last' = [NoCall EXCEPT !.op = "open", !.b = c]
    /\ UNCHANGED <<pending, isNode>>
    /\ UNCHANGED builderVars
    /\ UNCHANGED entityVars

\* The socket's close or error event: the listener sets this.socket = null.
SocketClose(c) ==
    /\ c \in 1..Len(connection)
    /\ connection[c].subscriptionsObject.socket # NULL
    /\ connection' = [connection EXCEPT ![c].subscriptionsObject.socket = NULL,
                                        ![c].subscriptionsObject.wire = <<>>]
    /\ last' = [NoCall EXCEPT !.op = "close", !.b = c]
    /\ UNCHANGED <<pending, isNode>>
    /\ UNCHANGED builderVars
    /\ UNCHANGED entityVars

\* The socket's message event: the listener calls _receiveMessage(event).
SocketMessage(c, topic, job_id) ==
    /\ c \in 1..Len(connection)
    /\ connection[c].subscriptionsObject.socket = "OPEN"
    /\ LET r == receiveMessage(connection[c].subscriptionsObject, topic, job_id)
       IN /\ connection' = [connection EXCEPT ![c].subscriptionsObject = r.subs]
          /\ last' = [NoCall EXCEPT !.op = "message", !.b = c, !.param = topic,
                                     !.ret = r.called]
    /\ UNCHANGED <<pending, isNode>>
    /\ UNCHANGED builderVars
    /\ UNCHANGED entityVars

\* The arguments of a call of a function of Util that is still to be made.
Input(value) == [NoCall EXCEPT !.op = "input", !.value = value]

\* Util.compareVersionNumbers(v1, v2)
CompareVersionNumbers(v1, v2) ==
    /\ last = Input(<<v1, v2>>)
    /\ last' = [NoCall EXCEPT !.op = "compareVersionNumbers", !.value = <<v1, v2>>,
                               !.ret = compareVersionNumbers(v1, v2)]
    /\ UNCHANGED connectionVars
    /\ UNCHANGED builderVars
    /\ UNCHANGED entityVars

\* Util.mostCompatible(versions)
MostCompatible(versions, result) ==
    /\ last = Input(<<versions>>)
    /\ result \in mostCompatible(versions)
    /\ last' = [NoCall EXCEPT !.op = "mostCompatible", !.value = <<versions>>,
                               !.ret = result]
    /\ UNCHANGED connectionVars
    /\ UNCHANGED builderVars
    /\ UNCHANGED entityVars

\* new Capabilities(data); the object made is kept in last.node for the calls
\* that follow.
NewCapabilities(data) ==
    /\ last = Input(<<data>>)
    /\ LET r == Capabilities(data)
       IN last' = [NoCall EXCEPT !.op = "newCapabilities", !.value = <<data>>,
                                  !.threw = r.threw, !.error = r.error,
                                  !.node = r.self]
    /\ UNCHANGED connectionVars
    /\ UNCHANGED builderVars
    /\ UNCHANGED entityVars

\* capabilities.hasFeature(methodName)
HasFeature(methodName) ==
    /\ last.op \in {"newCapabilities", "hasFeature", "listFeatures"}
    /\ last.node # <<>>
    /\ last' = [NoCall EXCEPT !.op = "hasFeature", !.node = last.node,
                               !.param = methodName,
                               !.root = hasFeature(last.node[1], methodName)]
    /\ UNCHANGED connectionVars
    /\ UNCHANGED builderVars
    /\ UNCHANGED entityVars

\* capabilities.listFeatures()
ListFeatures ==
    /\ last.op \in {"newCapabilities", "hasFeature", "listFeatures"}
    /\ last.node # <<>>
    /\ last' = [NoCall EXCEPT !.op = "listFeatures", !.node = last.node,
                               !.ret = listFeatures(last.node[1])]
    /\ UNCHANGED connectionVars
    /\ UNCHANGED builderVars
    /\ UNCHANGED entityVars

\* new Job(connection, jobId), as connection.getJobById and createJob do
NewJob(c, jobId) ==
    /\ Len(job) < MaxJobs
    /\ c \in 1..Len(connection)
    /\ job' = Append(job, Job(c, jobId))
    /\ last' = [NoCall EXCEPT !.op = "newJob", !.b = Len(job) + 1]
    /\ UNCHANGED backend
    /\ UNCHANGED connectionVars
    /\ UNCHANGED builderVars

\* job.describeJob(), up to the await of the response
DescribeJob(j) ==
    /\ j \in 1..Len(job)
    /\ Len(pending) < MaxPending
    /\ pending' = Append(pending, JobPending("describeJob", j, "get /jobs/{job_id}",
                                             EmptyObject, EmptyObject))
    /\ last' = [NoCall EXCEPT !.op = "call", !.param = "describeJob", !.b = j]
    /\ UNCHANGED <<connection, isNode>>
    /\ UNCHANGED entityVars
    /\ UNCHANGED builderVars

\* job.updateJob(parameters), up to the await of the response to the PATCH
UpdateJob(j, parameters) ==
    /\ j \in 1..Len(job)
    /\ Len(pending) < MaxPending
    /\ pending' = Append(pending, JobPending("updateJob", j, "patch /jobs/{job_id}",
                                             parameters, convertToRequest(parameters)))
    /\ last' = [NoCall EXCEPT !.op = "call", !.param = "updateJob", !.b = j,
                               !.value = <<parameters>>]
    /\ UNCHANGED <<connection, isNode>>
    /\ UNCHANGED entityVars
    /\ UNCHANGED builderVars

\* The request the i-th waiting call of a job waits for is answered: the
\* back-end refuses it (ok is false), or it stores the body of a PATCH and
\* answers a GET with the metadata it stores.  The call runs on to its next
\* await, to its return or to its throw.
SettleJob(i, ok) ==
    /\ i \in 1..Len(pending)
    /\ LET p == pending[i]
           self == job[p.c]
           patched == ok /\ p.awaiting = "patch /jobs/{job_id}"
           stored == IF patched THEN patch(backend[self.jobId], p.request)
                     ELSE backend[self.jobId]
           response == IF ok THEN [ok |-> TRUE, data |-> stored]
                       ELSE [ok |-> FALSE, data |-> EmptyObject]
           r == IF p.awaiting = "patch /jobs/{job_id}"
                THEN updateJob(self, connection[self.connection], p.parameters, response)
                ELSE describeJob(self, response)
       IN /\ backend' = [backend EXCEPT ![self.jobId] = stored]
          /\ job' = [job EXCEPT ![p.c] = r.self]
          /\ pending' = IF r.state = "await"
                        THEN [pending EXCEPT ![i].awaiting = r.awaiting]
                        ELSE RemoveAt(pending, i)
          /\ last' = [NoCall EXCEPT
                         !.op = IF r.state = "await" THEN "await" ELSE p.fn,
                         !.b = p.c, !.param = p.awaiting,
                         !.value = <<p.parameters>>,
                         !.threw = (r.state = "rejected"), !.error = r.error,
                         !.node = <<p>>]
    /\ UNCHANGED <<connection, isNode>>
    /\ UNCHANGED builderVars

\* ----------------------------------------------------------- specifications
RECURSIVE SumOver(_, _)
SumOver(f, S) ==
    IF S = {} THEN 0
    ELSE LET x == CHOOSE y \in S : TRUE IN f[x] + SumOver(f, S \ {x})

\* number of ids builder b has generated
Calls(b) == SumOver(builder[b].idCounter, DOMAIN builder[b].idCounter)
TotalCalls == SumOver([b \in Builders |-> Calls(b)], Builders)

ProcessIds(b) ==
    LET ps == Catalog(builder[b].processes) IN {ps[i].id : i \in 1..Len(ps)}

NodeIds(b) == IF b = 0 THEN {} ELSE DOMAIN builder[b].nodes

\* A nested builder is made for an argument of a node of its parent, and is
\* attached to that node before it is used.
Attached(b) == builder[b].parent = 0 \/ builder[b].parentNode # <<>>

Next ==
    \/ \E c \in CatalogInputs("PROCESSES") :
           Len(builder) = 0 /\ NewBuilder(c, 0, "undefined")
    \/ \E c \in {ArrayValue("PROCESSES")} :
           /\ Len(builder) > 0
           /\ Attached(Len(builder))
           /\ NodeIds(Len(builder)) # {}
           /\ NewBuilder(c, Len(builder), "undefined")
    \/ \E b \in Builders : \E n \in NodeIds(builder[b].parent), a \in ArgumentNames :
           /\ b = Len(builder)
           /\ builder[b].parentNode = <<>>
           /\ SetParent(b, builder[builder[b].parent].nodes[n], a)
    \/ \E b \in Builders : \E id \in ProcessIds(b) :
           TotalCalls < MaxNodes /\ Attached(b) /\ Process(b, id)
    \/ \E b \in Builders, d \in Descriptors, root \in BOOLEAN :
           /\ Attached(b)
           /\ builder[b].parent = 0 => root
           /\ AddParameter(b, 0, d, root)
    \/ \E b \in Builders, root \in BOOLEAN : \E r \in 1..Len(heap) :
           /\ Attached(b)
           /\ builder[b].parent = 0 => root
           /\ AddParameter(b, r, heap[r], root)

Spec == Init /\ [][Next]_vars

\* Nested builders and their nodes, without declared parameters.
NextNest ==
    \/ \E c \in CatalogInputs("PROCESSES") :
           Len(builder) = 0 /\ NewBuilder(c, 0, "undefined")
    \/ \E c \in {ArrayValue("PROCESSES")} :
           /\ Len(builder) > 0
           /\ Attached(Len(builder))
           /\ NodeIds(Len(builder)) # {}
           /\ NewBuilder(c, Len(builder), "undefined")
    \/ \E b \in Builders : \E n \in NodeIds(builder[b].parent), a \in ArgumentNames :
           /\ b = Len(builder)
           /\ builder[b].parentNode = <<>>
           /\ SetParent(b, builder[builder[b].parent].nodes[n], a)
    \/ \E b \in Builders : \E id \in ProcessIds(b) :
           TotalCalls < MaxNestCalls /\ Attached(b) /\ Process(b, id)

SpecNest == Init /\ [][NextNest]_vars

\* Nested builders whose callback parameters are created and looked up.
CallbackNames == {"data"}

NextCache ==
    \/ \E c \in CatalogInputs("PROCESSES") :
           Len(builder) = 0 /\ NewBuilder(c, 0, "undefined")
    \/ \E c \in {ArrayValue("PROCESSES")} :
           /\ Len(builder) > 0
           /\ Attached(Len(builder))
           /\ NodeIds(Len(builder)) # {}
           /\ NewBuilder(c, Len(builder), "undefined")
    \/ \E b \in Builders : \E n \in NodeIds(builder[b].parent), a \in ArgumentNames :
           /\ b = Len(builder)
           /\ builder[b].parentNode = <<>>
           /\ SetParent(b, builder[builder[b].parent].nodes[n], a)
    \/ \E b \in Builders : \E id \in ProcessIds(b) :
           TotalCalls < MaxNodes /\ Attached(b) /\ Process(b, id)
    \/ \E b \in Builders, name \in CallbackNames :
           Attached(b) /\ CreateCallbackParameter(b, name)
    \/ \E b \in Builders : Attached(b) /\ GetParentCallbackParameters(b)
    \/ \E b \in Builders, d \in {Descriptor("data", "d1", ABSENT)} :
           Attached(b) /\ AddParameter(b, 0, d, TRUE)

SpecCache == Init /\ [][NextCache]_vars

\* Builders with metadata, serialised.
BuilderIds == {"undefined", "my_process"}
MetaKeys == {"summary"}

NextJSON ==
    \/ \E c \in CatalogInputs("PROCESSES"), id \in BuilderIds :
           Len(builder) = 0 /\ NewBuilder(c, 0, id)
    \/ \E c \in {ArrayValue("PROCESSES")}, id \in BuilderIds :
           /\ Len(builder) \in 1..(MaxJSONBuilders - 1)
           /\ Attached(Len(builder))
           /\ NodeIds(Len(builder)) # {}
           /\ NewBuilder(c, Len(builder), id)
    \/ \E b \in Builders : \E n \in NodeIds(builder[b].parent), a \in {"reducer"} :
           /\ b = Len(builder)
           /\ builder[b].parentNode = <<>>
           /\ SetParent(b, builder[builder[b].parent].nodes[n], a)
    \/ \E b \in Builders : \E id \in ProcessIds(b) :
           TotalCalls < MaxNodes /\ Attached(b) /\ Process(b, id)
    \/ \E b \in Builders, root \in BOOLEAN :
           Attached(b) /\ AddParameter(b, 0, Descriptor("x", "d1", "v"), root)
    \/ \E b \in Builders, key \in MetaKeys :
           Attached(b) /\ SetMeta(b, key, "text")
    \/ \E b \in Builders : Attached(b) /\ ToJSON(b)

SpecJSON == Init /\ [][NextJSON]_vars

\* One builder over a catalog whose names clash in their stems and ids.
NextIds ==
    \/ \E c \in CatalogInputs("IdProcesses") :
           Len(builder) = 0 /\ NewBuilder(c, 0, "undefined")
    \/ \E b \in Builders : \E id \in ProcessIds(b) :
           TotalCalls < MaxIdCalls /\ Process(b, id)

SpecIds == Init /\ [][NextIds]_vars

\* One builder whose generateId is called with names that clash.
GenNames == {log, log1, reduce_dimension, reduce_dimension_binary, L_A_I}

NextGen ==
    \/ \E c \in CatalogInputs("IdProcesses") :
           Len(builder) = 0 /\ NewBuilder(c, 0, "undefined")
    \/ \E b \in Builders : \E name \in GenNames :
           TotalCalls < MaxIdCalls /\ GenerateId(b, name)

SpecGen == Init /\ [][NextGen]_vars

\* Formulas compiled into root builders that also take direct process calls.
NextMath ==
    \/ /\ Len(builder) < MaxMathBuilders
       /\ NewBuilder(ArrayValue("MathProcesses"), 0, "undefined")
    \/ /\ TotalCalls < MaxMathCalls
       /\ \E b \in Builders : \E processId \in {add, multiply} : Process(b, processId)
    \/ /\ TotalCalls < MaxMathCalls
       /\ \E b \in Builders : \E formula \in Formulas : Math(b, formula)

SpecMath == Init /\ [][NextMath]_vars

\* Connections made by the caller and by connectDirect, in Node.js or in a
\* browser, with every response the back-end and the sign-in can give.
InitConnection ==
    /\ builder = <<>>
    /\ heap = <<>>
    /\ paramObjs = <<>>
    /\ job = <<>>
    /\ backend = EmptyObject
    /\ last = NoCall
    /\ connection = <<>>
    /\ pending = <<>>
    /\ isNode \in BOOLEAN

AuthTypes == {NULL, "basic", "oidc", "unknown"}
UiMethods == {"popup", "redirect"}

NextConnection ==
    \/ NewConnection
    \/ \E authType \in AuthTypes : \E uiMethod \in UiMethods :
          ConnectDirect(authType, uiMethod)
    \/ \E c \in 1..Len(connection) : Request(c, "init", "/")
    \/ \E c \in 1..Len(connection) : Request(c, "authenticateBasic", "/credentials/basic")
    \/ \E c \in 1..Len(connection) : Request(c, "describeAccount", "/me")
    \/ \E c \in 1..Len(connection) : Request(c, "listFileTypes", "/output_formats")
    \/ \E c \in 1..Len(connection) : \E uiMethod \in UiMethods : AuthenticateOIDC(c, uiMethod)
    \/ \E c \in 1..Len(connection) : Logout(c)
    \/ \E c \in 1..Len(connection) : \E user \in {NoUser, User(FALSE, TRUE, "user3", "token2")} :
          SetUserOIDC(c, user)
    \/ \E i \in 1..Len(pending) : \E response \in Responses(pending[i].awaiting) :
          Settle(i, response)

SpecConnection == InitConnection /\ [][NextConnection]_vars

\* Subscriptions of a connection: the caller subscribes and unsubscribes with
\* every kind of argument, the socket opens, closes and delivers messages.
Topics == {"openeo.files"}
Arguments == {Undefined, Function("f"), Object(ABSENT), Object("job1")}

NextSubscriptions ==
    \/ NewConnection
    \/ \E c \in 1..Len(connection) : \E topic \in Topics :
          \E callback \in Arguments : \E parameters \in Arguments :
             Subscribe(c, topic, callback, parameters)
    \/ \E c \in 1..Len(connection) : \E topic \in Topics :
          \E parameters \in {Undefined, Object(ABSENT), Object("job1")} :
             Unsubscribe(c, topic, parameters)
    \/ \E c \in 1..Len(connection) : SocketOpen(c)
    \/ \E c \in 1..Len(connection) : SocketClose(c)
    \/ \E c \in 1..Len(connection) :
          \E topic \in Topics \cup {"openeo.jobs", "openeo.welcome"} :
          \E job_id \in {ABSENT, "job1"} :
             SocketMessage(c, topic, job_id)

SpecSubscriptions == InitConnection /\ [][NextSubscriptions]_vars

\* Version numbers of up to MaxParts parts, the parts taken from numbers of one
\* and two digits, a number with a leading zero, a word and the empty string.
Parts == {<<"0">>, <<"9">>, <<"1", "0">>, <<"0", "9">>, <<"a">>, <<>>}

RECURSIVE PartLists(_)
PartLists(n) ==
    IF n = 0 THEN {<<>>}
    ELSE {<<p>> \o l : p \in Parts, l \in PartLists(n - 1)}

VersionNumbers ==
    {NoString} \cup
    {Version(join(l)) : l \in UNION {PartLists(n) : n \in 1..MaxParts}}

InitVersions ==
    /\ builder = <<>>
    /\ heap = <<>>
    /\ paramObjs = <<>>
    /\ job = <<>>
    /\ backend = EmptyObject
    /\ \E v1 \in VersionNumbers : \E v2 \in VersionNumbers : last = Input(<<v1, v2>>)
    /\ connection = <<>>
    /\ pending = <<>>
    /\ isNode = TRUE

NextVersions ==
    CompareVersionNumbers(last.value[1], last.value[2])

SpecVersions == InitVersions /\ [][NextVersions]_vars

\* Well-known documents of up to MaxVersions entries, and a value that is no
\* array.  The api_version values: 0.4.9, 0.4.10, 1.0.0, 0.4.a and no string.
ApiVersionValues ==
    {Version(<<"0", ".", "4", ".", "9">>), Version(<<"0", ".", "4", ".", "1", "0">>),
     Version(<<"1", ".", "0", ".", "0">>), Version(<<"0", ".", "4", ".", "a">>),
     NoString}

Entries ==
    {Entry(url, v, production) :
        url \in BOOLEAN, v \in ApiVersionValues,
        production \in {"true", "false", "undefined"}}

RECURSIVE EntryLists(_)
EntryLists(n) ==
    IF n = 0 THEN {<<>>}
    ELSE {<<e>> \o l : e \in Entries, l \in EntryLists(n - 1)}

VersionsInputs ==
    {[isArray |-> FALSE, items |-> <<>>]} \cup
    {[isArray |-> TRUE, items |-> l] : l \in UNION {EntryLists(n) : n \in 0..MaxVersions}}

InitCompatible ==
    /\ builder = <<>>
    /\ heap = <<>>
    /\ paramObjs = <<>>
    /\ job = <<>>
    /\ backend = EmptyObject
    /\ \E versions \in VersionsInputs : last = Input(<<versions>>)
    /\ connection = <<>>
    /\ pending = <<>>
    /\ isNode = TRUE

NextCompatible ==
    \E result \in mostCompatible(last.value[1]) : MostCompatible(last.value[1], result)

SpecCompatible == InitCompatible /\ [][NextCompatible]_vars

\* Capabilities documents with up to MaxEndpoints endpoints, the methods and
\* paths written in lower case, in upper case and in mixed case, and the three
\* kinds of invalid document.
Paths ==
    {<<"/">>, <<"/","j","o","b","s">>, <<"/","J","o","b","s">>,
     <<"/","j","o","b","s","/","{","j","o","b","_","i","d","}">>}
Methods ==
    {<<>>, <<<<"g","e","t">>>>, <<<<"G","E","T">>>>, <<<<"P","O","S","T">>>>,
     <<<<"G","E","T">>, <<"p","o","s","t">>>>}
Endpoints == {Endpoint(path, methods) : path \in Paths, methods \in Methods}

RECURSIVE EndpointLists(_)
EndpointLists(n) ==
    IF n = 0 THEN {<<>>}
    ELSE {<<e>> \o l : e \in Endpoints, l \in EndpointLists(n - 1)}

ApiVersion04 == <<"0", ".", "4", ".", "2">>
CapabilitiesInputs ==
    {CapabilitiesData(FALSE, <<>>, FALSE, <<>>),
     CapabilitiesData(TRUE, <<>>, TRUE, <<>>),
     CapabilitiesData(TRUE, ApiVersion04, FALSE, <<>>)} \cup
    {CapabilitiesData(TRUE, ApiVersion04, TRUE, l) :
        l \in UNION {EndpointLists(n) : n \in 0..MaxEndpoints}}

MethodNames ==
    {FeatureNames[i] : i \in 1..Len(FeatureNames)}
        \cup {"somethingThatIsntSupported", "constructor"}

InitCapabilities ==
    /\ builder = <<>>
    /\ heap = <<>>
    /\ paramObjs = <<>>
    /\ job = <<>>
    /\ backend = EmptyObject
    /\ \E data \in CapabilitiesInputs : last = Input(<<data>>)
    /\ connection = <<>>
    /\ pending = <<>>
    /\ isNode = TRUE

NextCapabilities ==
    \/ \E data \in {last.value[i] : i \in DOMAIN last.value} : NewCapabilities(data)
    \/ \E methodName \in MethodNames : HasFeature(methodName)
    \/ ListFeatures

SpecCapabilities == InitCapabilities /\ [][NextCapabilities]_vars

\* Jobs of a connection to a back-end that supports describeJob and of one to
\* a back-end that does not; the caller updates the title and the process
\* graph, together and apart, and the back-end accepts or refuses.
JobIds == {"job1"}
JobCapabilities ==
    {CapabilitiesData(TRUE, ApiVersion04, TRUE,
        <<Endpoint(<<"/","j","o","b","s","/","{","j","o","b","_","i","d","}">>, methods)>>) :
        methods \in {<<<<"P","A","T","C","H">>>>, <<<<"G","E","T">>, <<"P","A","T","C","H">>>>}}
StoredJob == [title |-> "title0", process_graph |-> "graph0", status |-> "submitted"]
UpdateKeys == {"title", "processGraph"}
UpdateValues == {"new1", "new2"}
UpdateParameters ==
    UNION {[keys -> UpdateValues] : keys \in (SUBSET UpdateKeys) \ {{}}}

InitJob ==
    /\ builder = <<>>
    /\ heap = <<>>
    /\ paramObjs = <<>>
    /\ last = NoCall
    /\ \E data \in JobCapabilities :
          connection = <<[Connection(TRUE) EXCEPT
                             !.capabilitiesObject = Capabilities(data).self]>>
    /\ pending = <<>>
    /\ isNode = TRUE
    /\ job = <<>>
    /\ backend = [jobId \in JobIds |-> StoredJob]

NextJob ==
    \/ \E c \in 1..Len(connection) : \E jobId \in JobIds : NewJob(c, jobId)
    \/ \E j \in 1..Len(job) : DescribeJob(j)
    \/ \E j \in 1..Len(job) : \E parameters \in UpdateParameters : UpdateJob(j, parameters)
    \/ \E i \in 1..Len(pending) : \E ok \in BOOLEAN : SettleJob(i, ok)

SpecJob == InitJob /\ [][NextJob]_vars

\* ------------------------------------------------------------------ claims
reduce == <<"r","e","d","u","c","e">>
reduc == <<"r","e","d","u","c">>

IdCounterOf(b, stem) ==
    IF stem \in DOMAIN builder[b].idCounter THEN builder[b].idCounter[stem] ELSE 0

\* C1: the node ids generated within one builder are pairwise distinct, so
\* the nodes map of a builder holds one entry per process() call made on it.
C1_DistinctIds ==
    \A b \in Builders : Cardinality(DOMAIN builder[b].nodes) = Calls(b)

\* C2: the k-th generateId call for a truncated stem s returns s followed by
\* the decimal k: a call for s returns s and one more than the number of
\* earlier calls for s, counts one call more for s, and leaves the counts of
\* all other stems as they are.
C2_PerStemCounter ==
    [][last'.op = "generateId" =>
        LET b == last'.b
            s == truncatedStem(last'.name)
            k == IdCounterOf(b, s) + 1
        IN /\ last'.ret = s \o NumberToString(k)
           /\ builder'[b].idCounter[s] = k
           /\ \A t \in DOMAIN builder[b].idCounter \ {s} :
                  builder'[b].idCounter[t] = builder[b].idCounter[t]
           /\ DOMAIN builder'[b].idCounter = DOMAIN builder[b].idCounter \cup {s}]_vars

C2_Witness ==
    /\ last.op = "generateId"
    /\ last.name = log
    /\ last.ret = log \o <<"1", "1">>
    /\ IdCounterOf(last.b, reduce) = 1

\* The stem as the claim words it: lowercased, all underscores removed, cut
\* after 6 characters.
LoweredWithoutUnderscores(name) ==
    SelectSeq([i \in 1..Len(name) |-> ToLower(name[i])], LAMBDA c : c # "_")
ClaimedStem(name) == substr(LoweredWithoutUnderscores(name), 6)

\* C3: the stem of a generated id is the name lowercased, with all
\* underscores removed, cut after 6 characters: every id generateId returns
\* is that stem followed by a decimal number.
C3_LoweredStem ==
    last.op = "generateId" =>
        \E k \in 1..Calls(last.b) :
            last.ret = ClaimedStem(last.name) \o NumberToString(k)

\* C4: on a fresh builder two calls of reduce_dimension yield the ids reduc1
\* and then reduc2.
C4_Reduc ==
    [][(last'.op = "generateId" /\ last'.name = reduce_dimension) =>
        /\ Calls(last'.b) = 0 => last'.ret = reduc \o <<"1">>
        /\ (Calls(last'.b) = 1 /\ last.op = "generateId"
                /\ last.name = reduce_dimension) => last'.ret = reduc \o <<"2">>]_vars

\* C4, with the six characters substr(0, 6) keeps: on a fresh builder two
\* calls of reduce_dimension yield the ids reduce1 and then reduce2.
C4_Reduce ==
    [][(last'.op = "generateId" /\ last'.name = reduce_dimension) =>
        /\ Calls(last'.b) = 0 => last'.ret = reduce \o <<"1">>
        /\ (Calls(last'.b) = 1 /\ last.op = "generateId"
                /\ last.name = reduce_dimension) => last'.ret = reduce \o <<"2">>]_vars

C4_Witness ==
    /\ last.op = "generateId"
    /\ last.name = reduce_dimension
    /\ Calls(last.b) = 2
    /\ DOMAIN builder[last.b].idCounter = {reduce}
    /\ last.ret = reduce \o <<"2">>

\* C5: a process() call on one builder changes neither the id counters nor
\* the nodes map of any other builder, and the first id a builder allocates
\* for a stem has the suffix 1, whatever its parent has allocated.
C5_PerBuilderIds ==
    [][last'.op = "process" =>
        LET b == last'.b
            s == truncatedStem(last'.name)
        IN /\ \A c \in Builders \ {b} :
                  /\ builder'[c].idCounter = builder[c].idCounter
                  /\ builder'[c].nodes = builder[c].nodes
           /\ IdCounterOf(b, s) = 0 => last'.ret = s \o <<"1">>]_vars

C5_Witness ==
    /\ last.op = "process"
    /\ builder[last.b].parent # 0
    /\ IdCounterOf(builder[last.b].parent, truncatedStem(last.name)) = 1
    /\ last.ret = truncatedStem(last.name) \o <<"1">>
    /\ last.ret \in DOMAIN builder[builder[last.b].parent].nodes

\* The catalogs the claim calls valid.
ValidCatalog(c) ==
    c.type = "array" \/ (c.type = "object" /\ c.processes = "array")

C7_StoresNode ==
    [][last'.op = "process" =>
        LET b == last'.b
            n == last'.node[1]
        IN /\ n.id \in DOMAIN builder'[b].nodes
           /\ builder'[b].nodes[n.id] = n
           /\ \A k \in DOMAIN builder'[b].nodes : builder'[b].nodes[k].id = k
           /\ \A k \in DOMAIN builder[b].nodes :
                  /\ k \in DOMAIN builder'[b].nodes
                  /\ builder'[b].nodes[k] = builder[b].nodes[k]]_vars

\* The declared-parameter list of builder c as its content: whether it is an
\* array, and the descriptors it holds.
ParameterList(bs, hp, c) ==
    [array |-> bs[c].parameters.array,
     items |-> [i \in 1..Len(bs[c].parameters.items) |-> hp[bs[c].parameters.items[i]]]]

NoDuplicateNames(items) ==
    \A i, j \in 1..Len(items) : items[i].name = items[j].name => i = j

\* The callback parameter names the catalog declares for the argument of the
\* parent node that builder b is the callback of.
DeclaredCallbackNames(b) ==
    IF builder[b].parentNode = <<>> \/ builder[b].parentParameter = NULL THEN {}
    ELSE LET n == builder[b].parentNode[1]
             ps == Catalog(builder[n.parent].processes)
             entries == {e \in {ps[i] : i \in 1..Len(ps)} : e.id = n.process_id}
             declared == UNION {{e.parameters[j] : j \in 1..Len(e.parameters)} :
                                e \in entries}
             matching == {q \in declared :
                              q.name = builder[b].parentParameter /\ ~q.ambiguous}
         IN UNION {{q.cbParams[k] : k \in 1..Len(q.cbParams)} : q \in matching}

\* The later descriptor merged into the earlier one.
Merged(earlier, later) ==
    [name |-> later.name, description |-> later.description,
     default |-> IF later.default = ABSENT THEN earlier.default ELSE later.default]

\* C8: a declared-parameter list holds at most one entry per parameter name;
\* declaring a name the list holds does not lengthen the list, it merges the
\* new descriptor into the entry (its fields overwrite, the others are kept)
\* at the entry's position; declaring another name appends the descriptor.
C8_MergeByName ==
    [][(last'.op = "addParameter"
            /\ last'.param \notin DeclaredCallbackNames(last'.b)) =>
        LET t == IF last'.root THEN rootOf(last'.b) ELSE last'.b
            parameter == last'.value[1]
            old == ParameterList(builder, heap, t).items
            new == ParameterList(builder', heap', t).items
        IN /\ \A c \in Builders :
                  NoDuplicateNames(ParameterList(builder', heap', c).items)
           /\ IF \E i \in 1..Len(old) : old[i].name = parameter.name
              THEN /\ Len(new) = Len(old)
                   /\ \A i \in 1..Len(old) :
                          new[i] = IF old[i].name = parameter.name
                                   THEN Merged(old[i], parameter) ELSE old[i]
              ELSE new = Append(old, parameter)]_vars

C8_Witness ==
    /\ last.op = "addParameter"
    /\ last.value = <<Descriptor("x", "d2", ABSENT)>>
    /\ \E b \in Builders :
           /\ builder[b].parent = 0
           /\ ParameterList(builder, heap, b).items =
                  <<Descriptor("data", "d1", ABSENT), Descriptor("x", "d2", "v")>>

\* C9: addParameter with the default root flag on a nested builder, for a
\* name that is no callback parameter of that builder, adds or merges the
\* descriptor in the list of the root builder and leaves the lists of the
\* nested builder and of all builders between them unchanged.
C9_OnlyRootList ==
    [][(last'.op = "addParameter" /\ last'.root /\ builder[last'.b].parent # 0
            /\ last'.param \notin DeclaredCallbackNames(last'.b)) =>
        /\ \E i \in 1..Len(builder'[rootOf(last'.b)].parameters.items) :
               ParameterList(builder', heap', rootOf(last'.b)).items[i].name = last'.param
        /\ \A c \in Builders \ {rootOf(last'.b)} :
               ParameterList(builder', heap', c) = ParameterList(builder, heap, c)]_vars

RECURSIVE Enclosing(_)
Enclosing(b) == IF b = 0 THEN {} ELSE {b} \cup Enclosing(builder[b].parent)

EnclosingCallbackNames(b) == UNION {DeclaredCallbackNames(c) : c \in Enclosing(b)}

\* C11: addParameter from a builder, with the default root flag, for a name
\* that a callback scope enclosing the builder declares (the builder's own
\* scope or that of an ancestor) puts nothing into the declared-parameter list
\* of the root builder.
C11_EnclosingScopeWins ==
    [][(last'.op = "addParameter" /\ last'.root
            /\ last'.param \in EnclosingCallbackNames(last'.b)) =>
        ParameterList(builder', heap', rootOf(last'.b)) =
            ParameterList(builder, heap, rootOf(last'.b))]_vars

\* The Parameter objects made so far for builder b and a name.
ParameterCount(count, b, name) ==
    IF <<b, name>> \in DOMAIN count THEN count[<<b, name>>] ELSE 0

NoScope(b) == builder[b].parentNode = <<>> \/ builder[b].parentParameter = NULL

\* The callback-signature lookup for the parent node and argument of builder b
\* fails: the catalog entry of the node declares the argument with a schema
\* that has no single callback signature.
LookupFails(b) ==
    /\ ~NoScope(b)
    /\ LET n == builder[b].parentNode[1]
           ps == Catalog(builder[n.parent].processes)
       IN \E i \in 1..Len(ps) :
              /\ ps[i].id = n.process_id
              /\ \E j \in 1..Len(ps[i].parameters) :
                     /\ ps[i].parameters[j].name = builder[b].parentParameter
                     /\ ps[i].parameters[j].ambiguous

\* C13: getParentCallbackParameters never throws, and returns the empty list
\* for a builder without parent node or parent argument name and for one whose
\* callback-signature lookup fails; addParameter on such a builder does not
\* throw either and declares the parameter in the list of the root builder.
C13_LookupFailureIsCaught ==
    [][/\ last'.op = "getParentCallbackParameters" =>
              /\ ~last'.threw
              /\ (NoScope(last'.b) \/ LookupFails(last'.b)) => last'.ret = <<>>
       /\ (last'.op = "addParameter" /\ (NoScope(last'.b) \/ LookupFails(last'.b))) =>
              /\ ~last'.threw
              /\ \E i \in 1..Len(builder'[rootOf(last'.b)].parameters.items) :
                     ParameterList(builder', heap', rootOf(last'.b)).items[i].name
                         = last'.param]_vars

C13_Witness ==
    /\ last.op = "addParameter"
    /\ LookupFails(last.b)
    /\ ParameterList(builder, heap, rootOf(last.b)).items =
           <<Descriptor("data", "d1", ABSENT)>>
    /\ builder[last.b].callbackParameterCache = <<>>

\* C14: toJSON returns an object whose process_graph has one entry per node
\* of the builder, keyed by the node id and holding the serialization of that
\* node, and which has a metadata key of PROCESS_META exactly when that field
\* is set on the builder, with the value of the field; toJSON changes nothing
\* of any builder.
C14_ToJSON ==
    [][last'.op = "toJSON" =>
        LET self == builder[last'.b]
            json == last'.ret[1]
        IN /\ DOMAIN json.process_graph = DOMAIN self.nodes
           /\ \A k \in DOMAIN self.nodes :
                  json.process_graph[k] = [process_id |-> self.nodes[k].process_id]
           /\ DOMAIN json.meta \subseteq {PROCESS_META[i] : i \in 1..Len(PROCESS_META)}
           /\ ("id" \in DOMAIN json.meta) = (self.id # "undefined")
           /\ "id" \in DOMAIN json.meta => json.meta["id"] = self.id
           /\ ("parameters" \in DOMAIN json.meta) = self.parameters.array
           /\ "parameters" \in DOMAIN json.meta =>
                  json.meta["parameters"] = self.parameters.items
           /\ \A key \in DOMAIN json.meta \ {"id", "parameters"} :
                  key \in DOMAIN self.meta /\ json.meta[key] = self.meta[key]
           /\ \A key \in DOMAIN self.meta : key \in DOMAIN json.meta
           /\ builder' = builder
           /\ heap' = heap]_vars

C14_Witness ==
    /\ last.op = "toJSON"
    /\ builder[last.b].parent = 0
    /\ DOMAIN last.ret[1].meta = {"id", "summary", "parameters"}
    /\ Cardinality(DOMAIN last.ret[1].process_graph) = 2

\* C15: the serialization of a builder that has a parent holds only the
\* process_graph key, none of the metadata keys.
C15_NestedOnlyGraph ==
    (last.op = "toJSON" /\ builder[last.b].parent # 0) =>
        DOMAIN last.ret[1].meta = {}

\* C16: when math fails with a formula syntax error, the nodes map and the id
\* counters of every builder are what they were before the call.
C16_SyntaxErrorCommitsNothing ==
    [][(last'.op = "math" /\ last'.threw /\ ~parse(last'.value[1]).ok) =>
           \A b \in Builders :
               /\ builder'[b].nodes = builder[b].nodes
               /\ builder'[b].idCounter = builder[b].idCounter]_vars

\* "(2 + 3" has failed on a builder that already holds an add node: a walk of
\* the well-formed part would have taken the id add2.
C16_Witness ==
    /\ last.op = "math"
    /\ last.threw
    /\ last.value[1] = <<"(", "2", "+", "3">>
    /\ DOMAIN builder[last.b].nodes = {add \o <<"1">>}

BasicRequested == last'.op = "call" /\ last'.param = "authenticateBasic"
BasicSettled == last'.param = "/credentials/basic" /\ last'.op # "call"

\* C18: when authenticateBasic fails, because the request is rejected or the
\* response lacks user_id or access_token, userId and accessToken of the
\* connection are what they were before; the request itself changes neither.
C18_FailedBasicChangesNothing ==
    [][((BasicSettled /\ last'.threw) \/ BasicRequested) =>
           /\ connection'[last'.b].userId = connection[last'.b].userId
           /\ connection'[last'.b].accessToken = connection[last'.b].accessToken]_vars

\* A response with a user_id and no access_token has made authenticateBasic
\* throw on a connection that is not logged in.
C18_Witness ==
    /\ last.op = "authenticateBasic"
    /\ last.threw
    /\ last.error = "No access_token returned."
    /\ last.value[1].data.user_id = "user1"
    /\ ~isLoggedIn(connection[last.b])
    /\ getUserId(connection[last.b]) = NULL

\* A connection nobody has authenticated.
LoggedOut(self) == ~isLoggedIn(self) /\ getUserId(self) = NULL

\* The step is the end of a successful authentication: authenticateBasic or
\* the popup sign-in has resolved, or setUserOIDC has taken a user.
Authenticated ==
    /\ ~last'.threw
    /\ \/ last'.param \in {"/credentials/basic", "signinPopup"} /\ last'.op # "call"
       \/ last'.op = "setUserOIDC"

\* C19: a new Connection is not logged in and getUserId() is null; it stays so
\* under every step that is not the end of a successful authentication; when
\* authenticateBasic resolves, the connection is logged in and getUserId() is
\* the user_id of the response.
C19_LoggedOutUntilAuthenticated ==
    [][/\ last'.op = "newConnection" => LoggedOut(connection'[last'.b])
       /\ \A c \in 1..Len(connection) :
              (LoggedOut(connection[c]) /\ ~Authenticated) => LoggedOut(connection'[c])
       /\ (BasicSettled /\ ~last'.threw) =>
              /\ isLoggedIn(connection'[last'.b])
              /\ getUserId(connection'[last'.b]) = last'.value[1].data.user_id]_vars

\* The steps that end a connectDirect call; last'.node holds the call.
ConnectDirectEnded == last'.op = "connectDirect"
AuthenticationUrls == {"/credentials/basic", "/credentials/oidc"}
VersionSupported(response) ==
    startsWith(response.data.api_version, <<"0", ".", "4", ".">>)

C26_LogoutLogsOut ==
    [][last'.op = "logout" =>
           /\ connection'[last'.b].userId = NULL
           /\ connection'[last'.b].accessToken = NULL
           /\ ~isLoggedIn(connection'[last'.b])]_vars

\* C21: connection.subscribe(topic, callback, parameters) with a function as
\* callback and an object or nothing as parameters does not throw, registers
\* the function as the listener of the topic under the hash of the
\* parameters, and queues or sends a subscribe message for the topic.
C21_SubscribeRegisters ==
    [][(/\ last'.op = "subscribe"
        /\ last'.value[1].type = "function"
        /\ last'.value[2].type \in {"object", "undefined"}) =>
           LET subs == connection'[last'.b].subscriptionsObject
               ps == IF last'.value[2] = Undefined THEN Object(ABSENT)
                     ELSE last'.value[2]
               message == [authorization |-> connection[last'.b].accessToken,
                           topic |-> "openeo.subscribe",
                           payload |-> <<[topic |-> last'.param, job_id |-> ps.id]>>]
           IN /\ ~last'.threw
              /\ last'.param \in DOMAIN subs.listeners
              /\ hash(ps) \in DOMAIN subs.listeners[last'.param]
              /\ subs.listeners[last'.param][hash(ps)] = last'.value[1]
              /\ \/ \E i \in 1..Len(subs.messageQueue) : subs.messageQueue[i] = message
                 \/ \E i \in 1..Len(subs.wire) : subs.wire[i] = message]_vars

\* The order of two valid version numbers by their components as numbers,
\* from the left, a missing component being 0.
RECURSIVE NumericOrder(_, _, _)
NumericOrder(v1p, v2p, i) ==
    IF i > Len(v1p) /\ i > Len(v2p) THEN 0
    ELSE LET left == IF i <= Len(v1p) THEN ToNumber(v1p[i]) ELSE 0
             right == IF i <= Len(v2p) THEN ToNumber(v2p[i]) ELSE 0
         IN IF left < right THEN -1
            ELSE IF left > right THEN 1
            ELSE NumericOrder(v1p, v2p, i + 1)

\* C22: compareVersionNumbers returns null when a version number is invalid,
\* and for two valid ones 1, -1 or 0 as the first is greater than, less than or
\* equal to the second, components compared as numbers.
C22_NumericComparison ==
    last.op = "compareVersionNumbers" =>
        LET v1 == last.value[1]
            v2 == last.value[2]
        IN IF validateVersionNumber(v1) /\ validateVersionNumber(v2)
           THEN last.ret = <<NumericOrder(split(v1.chars), split(v2.chars), 1)>>
           ELSE last.ret = <<>>

\* The number of times an entry occurs in a list.
Count(list, e) == Cardinality({i \in DOMAIN list : list[i] = e})

\* C23: mostCompatible returns the empty list for what is no array, and for an
\* array exactly its entries with a string url and a valid api_version that
\* starts with "0.4.", every production entry before every non-production
\* entry and, among the entries of each kind, in descending order of
\* api_version as version numbers.
C23_MostSuitableFirst ==
    last.op = "mostCompatible" =>
        LET versions == last.value[1]
            ret == last.ret
        IN IF ~versions.isArray THEN ret = <<>>
           ELSE /\ \A e \in Entries : Count(ret, e) = Count(filter(versions.items), e)
                /\ \A i, j \in DOMAIN ret :
                      i < j =>
                         /\ ret[j].production # "false" => ret[i].production # "false"
                         /\ (ret[i].production # "false") = (ret[j].production # "false")
                               => NumericOrder(split(ret[i].api_version.chars),
                                               split(ret[j].api_version.chars), 1) >= 0

\* The back-end's endpoint list holds the method and path of a string, up to
\* the case of the letters.
Offers(data, feature) ==
    \E i \in 1..Len(data.endpoints) :
        \E j \in 1..Len(data.endpoints[i].methods) :
            toLowerCase(data.endpoints[i].methods[j] \o <<" ">> \o data.endpoints[i].path)
                = toLowerCase(feature)

C25_UpdateJobHoldsValues ==
    (last.op = "updateJob" /\ ~last.threw) =>
        \A key \in DOMAIN last.value[1] \cap DOMAIN backendNames :
            job[last.b].own[key] = last.value[1][key]

====
